---- MODULE Spec2Model ----
(***************************************************************************)
(* nespump: the 6502 interpreter and memory-mapped bus of src/src/main.rs. *)
(*                                                                         *)
(* The emulator state is the struct Nes; it is held in the variable nes as *)
(* a record with the struct's field names.  Every method of Nes is an      *)
(* operator from a machine record to a machine record.  A machine record   *)
(* is the struct plus four threaded fields that are not fields of Nes:     *)
(*   ret    the value returned by the last call (read, pop, adc, ...)      *)
(*   panic  the panic raised so far, if any                                *)
(*   trace  the last TraceLen observable events (history variable)         *)
(*   joy    what an observer of the bus knows of the controller port       *)
(* Arrays that start zeroed and are large (ram, cartridge, ppu_cartridge)  *)
(* are kept as finite maps of their non-zero cells.                        *)
(***************************************************************************)
EXTENDS Integers, Sequences, FiniteSets, TLC

VARIABLES nes, paused, status, trace, joy, overflow_checks, events

vars == <<nes, paused, status, trace, joy, overflow_checks, events>>

(***************************************************************************)
(* Bounds of the model.                                                    *)
(***************************************************************************)
MaxCycles == 110
MaxEvents == 1
TraceLen == 26

(***************************************************************************)
(* Integer helpers: u8 / u16 arithmetic and bit tests.                     *)
(***************************************************************************)
U8(v) == v % 256
U16(v) == v % 65536
Bit(v, k) == (v \div (2 ^ k)) % 2
B2N(b) == IF b THEN 1 ELSE 0

RECURSIVE BitOp(_, _, _, _)
BitOp(f, p, q, k) ==
  IF k = 0 THEN 0
  ELSE 2 * BitOp(f, p \div 2, q \div 2, k - 1)
       + (CASE f = "and" -> (p % 2) * (q % 2)
            [] f = "or"  -> IF (p % 2) + (q % 2) > 0 THEN 1 ELSE 0
            [] f = "xor" -> ((p % 2) + (q % 2)) % 2)

BitAnd(p, q) == BitOp("and", p, q, 16)
BitOr(p, q) == BitOp("or", p, q, 16)
BitXor(p, q) == BitOp("xor", p, q, 16)

is_negative(val) == Bit(val, 7) # 0

(***************************************************************************)
(* Zero-initialised arrays as finite maps of their non-zero cells.         *)
(***************************************************************************)
Get(mem, i) == IF i \in DOMAIN mem THEN mem[i] ELSE 0

Put(mem, i, v) ==
  IF v = 0
  THEN [j \in (DOMAIN mem) \ {i} |-> mem[j]]
  ELSE [j \in (DOMAIN mem) \cup {i} |-> IF j = i THEN v ELSE mem[j]]

Empty == [j \in {} |-> 0]

(***************************************************************************)
(* Constants of main.rs.                                                   *)
(***************************************************************************)
RESET_VECTOR == 65532
BRK_VECTOR == 65534
NMI_VECTOR == 65530
PPUCTRL == 8192
PPUCTRL_I == PPUCTRL % 8
OAMADDR == 8195
OAMDATA == 8196
OAMDATA_I == OAMDATA % 8
PPUSCROLL == 8197
PPUSCROLL_I == PPUSCROLL % 8
PPUADDR == 8198
PPUADDR_I == PPUADDR % 8
PPUDATA == 8199
PPUDATA_I == PPUDATA % 8
PPUSTATUS == 8194
PPUSTATUS_I == PPUSTATUS % 8
OAMDMA == 16404
OAMDMA_I == OAMDMA % 24
JOYPAD == 16406
JOYPAD_I == JOYPAD % 24

(***************************************************************************)
(* Panics.  A Rust panic aborts the process; the machine keeps the first.  *)
(***************************************************************************)
NoPanic == [kind |-> "none", opcode |-> 0]

Panic(m, kind, opcode) ==
  IF m.panic.kind = "none"
  THEN [m EXCEPT !.panic = [kind |-> kind, opcode |-> opcode]]
  ELSE m

(***************************************************************************)
(* The trace: a window of the last TraceLen events.                        *)
(*   k = "step": a = PC of the instruction, v = the opcode fetched         *)
(*   k = "r"/"w": a CPU bus access by an instruction to 0x2000..0x401F     *)
(*   k = "nmi": nmi_interrupt ran; a = the PC it pushed, v = the status    *)
(*              byte it pushed                                             *)
(***************************************************************************)
Ev(k, a, v) == [k |-> k, a |-> a, v |-> v]

Window(t) == IF Len(t) > TraceLen THEN SubSeq(t, Len(t) - TraceLen + 1, Len(t)) ELSE t

Log(m, k, a, v) == [m EXCEPT !.trace = Window(Append(m.trace, Ev(k, a, v)))]

IsIO(addr) == addr >= 8192 /\ addr < 16416

(***************************************************************************)
(* Default for Nes (main.rs 191-224).                                      *)
(***************************************************************************)
Default ==
  [a |-> 0, x |-> 0, y |-> 0, s |-> 253, pc |-> 0,
   carry |-> FALSE, zero |-> FALSE, interrupt_disable |-> TRUE,
   decimal_mode |-> FALSE, overflow |-> FALSE, negative |-> FALSE,
   cycles |-> 0,
   ram |-> Empty,
   ppu_regs |-> [i \in 0..7 |-> IF i = 2 THEN 160 ELSE 0],
   apu_and_io_regs |-> [i \in 0..23 |-> 0],
   cartridge |-> Empty,
   ppu_cartridge |-> Empty,
   ppu_ram |-> [i \in 0..31 |-> 0],
   oam |-> [i \in 0..255 |-> 0],
   w |-> FALSE, ppuaddr |-> 0, ppudata |-> 0,
   internal_x_scroll |-> 0, internal_y_scroll |-> 0,
   oamdata_is_ff |-> FALSE,
   buttons |-> [i \in 0..7 |-> FALSE],
   current_button |-> 0, strobe_mode |-> FALSE]

JoyInit == [latched |-> [i \in 0..7 |-> FALSE], held |-> TRUE]

Machine(n, t, j) == n @@ [ret |-> 0, panic |-> NoPanic, trace |-> t, joy |-> j]

Core(m) == [f \in DOMAIN Default |-> m[f]]

(***************************************************************************)
(* u16 `+=` (main.rs 531, 582): wraps in a build without overflow checks,  *)
(* panics in a build with them.                                            *)
(***************************************************************************)
ppuaddr_add(m, inc) ==
  IF m.ppuaddr + inc > 65535 /\ overflow_checks
  THEN Panic(m, "overflow", 0)
  ELSE [m EXCEPT !.ppuaddr = U16(m.ppuaddr + inc)]

(***************************************************************************)
(* PPU memory (main.rs 434-452).                                           *)
(***************************************************************************)
nametable_index(addr) == (addr - 8192) % 1024

RECURSIVE ppu_read(_, _)
ppu_read(m, addr) ==
  IF addr < 9216 THEN Get(m.ppu_cartridge, addr)
  ELSE IF addr < 12288 THEN Get(m.ppu_cartridge, nametable_index(addr))
  ELSE IF addr < 16128 THEN Get(m.ppu_cartridge, addr)
  ELSE IF addr < 16384 THEN m.ppu_ram[addr % 32]
  ELSE ppu_read(m, addr % 16384)

RECURSIVE ppu_write(_, _, _)
ppu_write(m, addr, val) ==
  IF addr < 9216 THEN [m EXCEPT !.ppu_cartridge = Put(@, addr, val)]
  ELSE IF addr < 12288 THEN [m EXCEPT !.ppu_cartridge = Put(@, nametable_index(addr), val)]
  ELSE IF addr < 16128 THEN [m EXCEPT !.ppu_cartridge = Put(@, addr, val)]
  ELSE IF addr < 16384 THEN [m EXCEPT !.ppu_ram[addr % 32] = val]
  ELSE ppu_write(m, addr % 16384, val)

(***************************************************************************)
(* Flags byte (main.rs 470-477).                                           *)
(***************************************************************************)
update_nz_flags(m, val) == [m EXCEPT !.zero = (val = 0), !.negative = (val \div 128 # 0)]

\* a status byte whose unused bit 5 is left clear
get_flags_byte_bit5_clear(m, b) ==
  128 * B2N(m.negative) + 64 * B2N(m.overflow) + 16 * B2N(b)
  + 8 * B2N(m.decimal_mode) + 4 * B2N(m.interrupt_disable)
  + 2 * B2N(m.zero) + B2N(m.carry)

get_flags_byte(m, b) ==
  128 * B2N(m.negative) + 64 * B2N(m.overflow) + 32 + 16 * B2N(b)
  + 8 * B2N(m.decimal_mode) + 4 * B2N(m.interrupt_disable)
  + 2 * B2N(m.zero) + B2N(m.carry)

(***************************************************************************)
(* The bus (main.rs 518-622), the stack (479-498) and nmi_interrupt        *)
(* (733-739).  write calls nmi_interrupt, which pushes through write.      *)
(***************************************************************************)
\* a register decode that forgets the mirrors above 0x2007
ppu_reg_index_unmirrored(addr) == IF addr < 8200 THEN addr % 8 ELSE 0

ppu_reg_index(addr) == addr % 8

\* a controller index that wraps one button early
\* a strobe that leaves the read index where it was
strobe_entry_button_kept(cb) == cb

\* `self.current_button = 0` on entering strobe mode
strobe_entry_button(cb) == 0

next_button_wraps_at_7(cb) == (cb + 1) % 7

next_button(cb) == (cb + 1) % 8

\* `for i in 0x00..0xff`: a half-open range
oamdma_last == 255 - 1

\* a DMA charge that ignores the parity of the counter
oamdma_cycles_flat(cycles) == 513

\* `self.cycles += 513 + self.cycles % 2`
oamdma_cycles(cycles) == 513 + (cycles % 2)

\* a RAM decode that forgets the mirrors above 0x07FF
ram_index_unmirrored(addr) == addr

\* `self.ram[(addr % 0x0800) as usize]`
ram_index(addr) == addr % 2048

\* `!(self.read(PPUCTRL) >> 7) != 0`: `!` is the bitwise complement of a u8
interrupts_disabled(ctrl) == (255 - (ctrl \div 128)) # 0

\* `self.ppuaddr += if (self.read(PPUCTRL) & 0b100) == 0 { 1 } else { 32 }`,
\* m2 being the machine after that read of PPUCTRL
ppuaddr_step(m2) == ppuaddr_add(m2, IF Bit(m2.ret, 2) = 0 THEN 1 ELSE 32)

\* `self.oam[self.read(OAMADDR) as usize]`, m1 being the machine after the read
oam_at(m1) == [m1 EXCEPT !.ret = m1.oam[m1.ret]]

\* a PPUADDR write that takes the low byte first
ppuaddr_latch_low_first(ppuaddr, w, val) ==
  IF w THEN (ppuaddr % 256) + 256 * val ELSE (ppuaddr \div 256) * 256 + val

\* `self.ppuaddr &= if self.w { 0xff00 } else { 0x00ff };
\*  self.ppuaddr |= (val as u16) << (if self.w { 0 } else { 8 })`
ppuaddr_latch(ppuaddr, w, val) ==
  IF w THEN (ppuaddr \div 256) * 256 + val ELSE (ppuaddr % 256) + 256 * val

\* a read of 0x4018..0x401F that returns the byte last read
test_mode_read_open_bus(m) == m

\* `0x4018..0x4020 => 0`
test_mode_read(m) == [m EXCEPT !.ret = 0]

RECURSIVE read(_, _)
read(m, addr) ==
  IF addr < 8192 THEN [m EXCEPT !.ret = Get(m.ram, ram_index(addr))]
  ELSE IF addr < 16384 THEN
    CASE ppu_reg_index(addr) = PPUSTATUS_I ->
           [m EXCEPT !.w = FALSE, !.ret = m.ppu_regs[ppu_reg_index(addr)]]
      [] ppu_reg_index(addr) = PPUDATA_I ->
           [ppuaddr_step(read([m EXCEPT !.ppudata = ppu_read(m, m.ppuaddr)], PPUCTRL))
              EXCEPT !.ret = m.ppudata]
      [] ppu_reg_index(addr) = OAMDATA_I ->
           IF m.oamdata_is_ff
           THEN [m EXCEPT !.ret = 255]
           ELSE oam_at(read(m, OAMADDR))
      [] OTHER -> [m EXCEPT !.ret = m.ppu_regs[ppu_reg_index(addr)]]
  ELSE IF addr < 16408 THEN
    IF addr % 24 = JOYPAD_I
    THEN [m EXCEPT !.current_button = IF ~m.strobe_mode THEN next_button(@) ELSE @,
                   !.ret = B2N(m.buttons[m.current_button])]
    ELSE [m EXCEPT !.ret = m.apu_and_io_regs[addr - 16384]]
  ELSE IF addr < 16416 THEN test_mode_read(m)
  ELSE [m EXCEPT !.ret = Get(m.cartridge, addr - 16416)]

\* `(hi << 8) | lo`, lo being the byte the last read left in ret
hi_lo(m2, hi) == [m2 EXCEPT !.ret = 256 * hi + m2.ret]

read_lo(m1, addr) == hi_lo(read(m1, addr), m1.ret)

read16(m, addr) == read_lo(read(m, U16(addr + 1)), addr)

\* `for i in 0x00..0xff { self.oam[i] = self.read((val << 8) | i) }`, the
\* iterations lo..hi in order
\* `self.oam[i] = self.read(..)`, m1 being the machine after the read
oam_put(m1, i) == [m1 EXCEPT !.oam[i] = m1.ret]

RECURSIVE oamdma_copy(_, _, _, _)
oamdma_copy(m, val, lo, hi) ==
  IF lo > hi THEN m
  ELSE IF lo = hi
  THEN oam_put(read(m, 256 * val + lo), lo)
  ELSE LET mid == (lo + hi) \div 2
           m1 == oamdma_copy(m, val, lo, mid)
       \* the test only makes TLC compute m1 before it descends
       IN IF m1.cycles >= 0 THEN oamdma_copy(m1, val, mid + 1, hi) ELSE m1

RECURSIVE write(_, _, _)
RECURSIVE oamdata_store(_, _)
RECURSIVE ppuctrl_store(_, _)
RECURSIVE push(_, _)
RECURSIVE nmi_interrupt(_)

write(m, addr, val) ==
  IF addr < 8192 THEN [m EXCEPT !.ram = Put(@, ram_index(addr), val)]
  ELSE IF addr < 16384 THEN
    CASE ppu_reg_index(addr) = OAMDATA_I -> oamdata_store(read(m, OAMADDR), val)
      [] ppu_reg_index(addr) = PPUADDR_I ->
           [m EXCEPT !.ppuaddr = ppuaddr_latch(@, m.w, val), !.w = ~m.w]
      [] ppu_reg_index(addr) = PPUSCROLL_I ->
           [m EXCEPT !.internal_y_scroll = IF m.w THEN val ELSE @,
                     !.internal_x_scroll = IF m.w THEN @ ELSE val,
                     !.w = ~m.w]
      [] ppu_reg_index(addr) = PPUDATA_I ->
           ppuaddr_step(read(ppu_write(m, m.ppuaddr, val), PPUCTRL))
      [] ppu_reg_index(addr) = PPUCTRL_I -> ppuctrl_store(read(m, PPUCTRL), val)
      [] OTHER -> [m EXCEPT !.ppu_regs[ppu_reg_index(addr)] = val]
  ELSE IF addr < 16408 THEN
    IF addr % 24 = OAMDMA_I
    THEN [oamdma_copy(m, val, 0, oamdma_last) EXCEPT !.cycles = @ + oamdma_cycles(@)]
    ELSE IF addr % 24 = JOYPAD_I
    THEN [m EXCEPT !.current_button = IF val % 2 > B2N(m.strobe_mode)
                                      THEN strobe_entry_button(@) ELSE @,
                   !.strobe_mode = IF val % 2 > B2N(m.strobe_mode) THEN TRUE
                                   ELSE IF val % 2 < B2N(m.strobe_mode) THEN FALSE
                                   ELSE @,
                   !.apu_and_io_regs[addr - 16384] = val % 8]
    ELSE [m EXCEPT !.apu_and_io_regs[addr - 16384] = val]
  ELSE IF addr < 16416 THEN m
  ELSE [m EXCEPT !.cartridge = Put(@, addr - 16416, val)]

\* an OAMDATA write that leaves OAMADDR where it is
oamdata_store_no_increment(m1, val) == [m1 EXCEPT !.oam[m1.ret] = val]

\* the OAMDATA arm of write: `let oam_addr = self.read(OAMADDR);
\* self.oam[oam_addr] = val; self.write(OAMADDR, oam_addr.wrapping_add(1))`
oamdata_store(m1, val) == write([m1 EXCEPT !.oam[m1.ret] = val], OAMADDR, U8(m1.ret + 1))

\* the PPUCTRL arm of write, m1 being the machine after `self.read(PPUCTRL)`
ppuctrl_store(m1, val) ==
  IF interrupts_disabled(m1.ret) /\ (val \div 128 # 0)
  THEN nmi_interrupt([m1 EXCEPT !.ppu_regs[PPUCTRL_I] = val])
  ELSE [m1 EXCEPT !.ppu_regs[PPUCTRL_I] = val]

push(m, val) == [write(m, U16(m.s + 256), val) EXCEPT !.s = U8(@ + 255)]

\* a push16 that pushes the low byte first
push16_low_first(m, val) == push(push(m, val % 256), val \div 256)

push16(m, val) == push(push(m, val \div 256), val % 256)

\* a pop that loads before it increments
pop_reads_first(m) == [read(m, U16(m.s + 256)) EXCEPT !.s = U8(@ + 1)]

pop(m) ==
  LET m1 == [m EXCEPT !.s = U8(@ + 1)]
  IN read(m1, U16(m1.s + 256))

\* the high byte, popped after the low byte that m1 left in ret
pop_hi(m1) == [pop(m1) EXCEPT !.ret = 256 * @ + m1.ret]

pop16(m) == pop_hi(pop(m))

\* a pop_flags that takes decimal_mode from bit 4
set_flags_decimal_from_break(m1) ==
  [m1 EXCEPT !.negative = Bit(m1.ret, 7) # 0,
             !.overflow = Bit(m1.ret, 6) # 0,
             !.interrupt_disable = Bit(m1.ret, 2) # 0,
             !.decimal_mode = Bit(m1.ret, 4) # 0,
             !.carry = Bit(m1.ret, 0) # 0,
             !.zero = Bit(m1.ret, 1) # 0]

\* a pop_flags that leaves interrupt_disable as it is
set_flags_keeps_interrupt_disable(m1) ==
  [m1 EXCEPT !.negative = Bit(m1.ret, 7) # 0,
             !.overflow = Bit(m1.ret, 6) # 0,
             !.decimal_mode = Bit(m1.ret, 3) # 0,
             !.carry = Bit(m1.ret, 0) # 0,
             !.zero = Bit(m1.ret, 1) # 0]

\* the flags of the byte the pop left in ret
set_flags(m1) ==
  [m1 EXCEPT !.negative = Bit(m1.ret, 7) # 0,
             !.overflow = Bit(m1.ret, 6) # 0,
             !.interrupt_disable = Bit(m1.ret, 2) # 0,
             !.decimal_mode = Bit(m1.ret, 3) # 0,
             !.carry = Bit(m1.ret, 0) # 0,
             !.zero = Bit(m1.ret, 1) # 0]

pop_flags(m) == set_flags(pop(m))

\* `self.push(self.get_flags_byte(b))`
push_flags(m, b) == push(m, get_flags_byte(m, b))

\* `self.pc = self.read16(NMI_VECTOR); self.cycles += 7`
nmi_vector(m4) == [m4 EXCEPT !.pc = m4.ret, !.cycles = @ + 7]

nmi_interrupt(m) ==
  nmi_vector(read16([push_flags(push16(Log(m, "nmi", m.pc, get_flags_byte(m, FALSE)), m.pc),
                                FALSE)
                       EXCEPT !.interrupt_disable = TRUE],
                    NMI_VECTOR))

key_down(n, b) == [n EXCEPT !.buttons[b] = TRUE]

key_up(n, b) == [n EXCEPT !.buttons[b] = FALSE]

(***************************************************************************)
(* ALU helpers (main.rs 632-731).  Each leaves its result in ret.          *)
(***************************************************************************)
\* an addition that drops the carry-in
adc_without_carry_in(m, op) ==
  LET result_16 == U16(m.a + op)
      result == U8(result_16)
      m1 == [m EXCEPT !.carry = result_16 > 255,
                      !.overflow = (is_negative(m.a) = is_negative(op))
                                   /\ (is_negative(result) # is_negative(op))]
  IN [update_nz_flags(m1, result) EXCEPT !.ret = result]

\* an adc that adjusts the low digit when the Decimal flag is set
adc_decimal(m, op) ==
  LET adjust == IF m.decimal_mode /\ (m.a % 16) + (op % 16) + B2N(m.carry) > 9
                THEN 6 ELSE 0
      result_16 == U16(m.a + op + B2N(m.carry) + adjust)
      result == U8(result_16)
      m1 == [m EXCEPT !.carry = result_16 > 255,
                      !.overflow = (is_negative(m.a) = is_negative(op))
                                   /\ (is_negative(result) # is_negative(op))]
  IN [update_nz_flags(m1, result) EXCEPT !.ret = result]

adc(m, op) ==
  LET result_16 == U16(m.a + op + B2N(m.carry))
      result == U8(result_16)
      m1 == [m EXCEPT !.carry = result_16 > 255,
                      !.overflow = (is_negative(m.a) = is_negative(op))
                                   /\ (is_negative(result) # is_negative(op))]
  IN [update_nz_flags(m1, result) EXCEPT !.ret = result]

and(m, op) ==
  LET result == BitAnd(m.a, op)
  IN [update_nz_flags(m, result) EXCEPT !.ret = result]

asl(m, op) ==
  LET result == U8(op * 2)
  IN [update_nz_flags(m, result) EXCEPT !.carry = is_negative(op), !.ret = result]

bit(m, op) ==
  LET result == BitAnd(m.a, op)
  IN [m EXCEPT !.zero = (result = 0),
               !.overflow = Bit(op, 6) # 0,
               !.negative = is_negative(op)]

cmp(m, op1, op2) ==
  update_nz_flags([m EXCEPT !.carry = op1 >= op2], U8(op1 + 256 - op2))

dec(m, val) ==
  LET result == U8(val + 255)
  IN [update_nz_flags(m, result) EXCEPT !.ret = result]

eor(m, op) ==
  LET result == BitXor(m.a, op)
  IN [update_nz_flags(m, result) EXCEPT !.ret = result]

inc(m, val) ==
  LET result == U8(val + 1)
  IN [update_nz_flags(m, result) EXCEPT !.ret = result]

lsr(m, op) ==
  LET result == op \div 2
  IN [update_nz_flags(m, result) EXCEPT !.carry = (op % 2 # 0), !.ret = result]

ora(m, op) ==
  LET result == BitOr(m.a, op)
  IN [update_nz_flags(m, result) EXCEPT !.ret = result]

rol(m, op) ==
  LET result == U8(op * 2) + B2N(m.carry)
      m1 == [m EXCEPT !.carry = is_negative(op)]
  IN [update_nz_flags(m1, result) EXCEPT !.ret = result]

\* a rotate right that shifts a zero into bit 7
ror_without_carry_in(m, op) ==
  LET result == op \div 2
      m1 == [m EXCEPT !.carry = (op % 2 # 0)]
  IN [update_nz_flags(m1, result) EXCEPT !.ret = result]

ror(m, op) ==
  LET result == 128 * B2N(m.carry) + (op \div 2)
      m1 == [m EXCEPT !.carry = (op % 2 # 0)]
  IN [update_nz_flags(m1, result) EXCEPT !.ret = result]

\* a subtraction that borrows when the carry is set
sbc_borrows_on_carry(m, op) ==
  LET result_16 == m.a - op - B2N(m.carry)
      result == U8(result_16 + 256)
      m1 == [m EXCEPT !.carry = result_16 >= 0,
                      !.overflow = (is_negative(result) # is_negative(m.a))
                                   /\ (is_negative(result) = is_negative(op))]
  IN [update_nz_flags(m1, result) EXCEPT !.ret = result]

sbc(m, op) ==
  LET result_16 == m.a - op - B2N(~m.carry)
      result == U8(result_16 + 256)
      m1 == [m EXCEPT !.carry = result_16 >= 0,
                      !.overflow = (is_negative(result) # is_negative(m.a))
                                   /\ (is_negative(result) = is_negative(op))]
  IN [update_nz_flags(m1, result) EXCEPT !.ret = result]

\* `op as u16`: an offset that is never negative
zero_extend(op) == op

\* `op as i8 as u16`: sign extension
sign_extend(op) == IF op >= 128 THEN 65280 + op ELSE op

branch(m, cond, op) ==
  LET pc2 == U16(m.pc + 2)
      new_pc == IF cond THEN U16(pc2 + sign_extend(op)) ELSE pc2
  IN [m EXCEPT !.cycles = @ + 2 + B2N(cond)
                            + B2N(cond) * B2N((new_pc \div 256) # (pc2 \div 256)),
               !.pc = new_pc]

(***************************************************************************)
(* The opcode match of step (main.rs 772-1761), one row per arm:           *)
(*   op    the opcode byte                                                 *)
(*   cls   the shape of the arm's body                                     *)
(*   fn    the helper it calls, or the flag / source register it names     *)
(*   reg   the register it loads, stores or compares, or the flag value    *)
(*   mode  the operand address it uses                                     *)
(*   len   the operand of pc.wrapping_add (0: the arm sets pc itself)      *)
(*   cyc   the constant added to cycles                                    *)
(*   cross whether the arm adds the mode's crossed_page flag               *)
(***************************************************************************)
R(op, cls, fn, reg, mode, len, cyc, cross) ==
  [op |-> op, cls |-> cls, fn |-> fn, reg |-> reg, mode |-> mode,
   len |-> len, cyc |-> cyc, cross |-> cross]

OpRows == {
  R(105, "alu", "adc", "a", "imm", 2, 2, FALSE),  \* ADC 0x69, line 774
  R(101, "alu", "adc", "a", "zp", 2, 3, FALSE),  \* ADC 0x65, line 779
  R(117, "alu", "adc", "a", "zpx", 2, 4, FALSE),  \* ADC 0x75, line 785
  R(109, "alu", "adc", "a", "abs", 3, 4, FALSE),  \* ADC 0x6d, line 791
  R(125, "alu", "adc", "a", "absx", 3, 4, TRUE),  \* ADC 0x7d, line 797
  R(121, "alu", "adc", "a", "absy", 3, 4, TRUE),  \* ADC 0x79, line 803
  R( 97, "alu", "adc", "a", "indx", 2, 6, FALSE),  \* ADC 0x61, line 809
  R(113, "alu", "adc", "a", "indy", 2, 5, TRUE),  \* ADC 0x71, line 815
  R( 41, "alu", "and", "a", "imm", 2, 2, FALSE),  \* AND 0x29, line 823
  R( 37, "alu", "and", "a", "zp", 2, 3, FALSE),  \* AND 0x25, line 828
  R( 53, "alu", "and", "a", "zpx", 2, 4, FALSE),  \* AND 0x35, line 834
  R( 45, "alu", "and", "a", "abs", 3, 4, FALSE),  \* AND 0x2d, line 840
  R( 61, "alu", "and", "a", "absx", 3, 4, TRUE),  \* AND 0x3d, line 846
  R( 57, "alu", "and", "a", "absy", 3, 4, TRUE),  \* AND 0x39, line 852
  R( 33, "alu", "and", "a", "indx", 2, 6, FALSE),  \* AND 0x21, line 858
  R( 49, "alu", "and", "a", "indy", 2, 5, TRUE),  \* AND 0x31, line 864
  R( 10, "rmwreg", "asl", "a", "impl", 1, 2, FALSE),  \* ASL 0x0a, line 872
  R(  6, "rmw", "asl", "", "zp", 2, 5, FALSE),  \* ASL 0x06, line 877
  R( 22, "rmw", "asl", "", "zpx", 2, 6, FALSE),  \* ASL 0x16, line 884
  R( 14, "rmw", "asl", "", "abs", 3, 6, FALSE),  \* ASL 0x0e, line 891
  R( 30, "rmw", "asl", "", "absx", 3, 7, FALSE),  \* ASL 0x1e, line 898
  R(144, "branch", "carry", "false", "rel", 0, 0, FALSE),  \* BCC 0x90, line 907
  R(176, "branch", "carry", "true", "rel", 0, 0, FALSE),  \* BCS 0xb0, line 912
  R(240, "branch", "zero", "true", "rel", 0, 0, FALSE),  \* BEQ 0xf0, line 917
  R( 36, "bit", "", "", "zp", 2, 3, FALSE),  \* BIT 0x24, line 922
  R( 44, "bit", "", "", "abs", 3, 4, FALSE),  \* BIT 0x2c, line 928
  R( 48, "branch", "negative", "true", "rel", 0, 0, FALSE),  \* BMI 0x30, line 936
  R(208, "branch", "zero", "false", "rel", 0, 0, FALSE),  \* BNE 0xd0, line 941
  R( 16, "branch", "negative", "false", "rel", 0, 0, FALSE),  \* BPL 0x10, line 946
  R(  0, "brk", "", "", "impl", 0, 7, FALSE),  \* BRK 0x00, line 951
  R( 80, "branch", "overflow", "false", "rel", 0, 0, FALSE),  \* BVC 0x50, line 960
  R(112, "branch", "overflow", "true", "rel", 0, 0, FALSE),  \* BVS 0x70, line 965
  R( 24, "flag", "carry", "false", "impl", 1, 2, FALSE),  \* CLC 0x18, line 970
  R(216, "flag", "decimal_mode", "false", "impl", 1, 2, FALSE),  \* CLD 0xd8, line 977
  R( 88, "flag", "interrupt_disable", "false", "impl", 1, 2, FALSE),  \* CLI 0x58, line 984
  R(184, "flag", "overflow", "false", "impl", 1, 2, FALSE),  \* CLV 0xb8, line 991
  R(201, "cmp", "", "a", "imm", 2, 2, FALSE),  \* CMP 0xc9, line 998
  R(197, "cmp", "", "a", "zp", 2, 3, FALSE),  \* CMP 0xc5, line 1003
  R(213, "cmp", "", "a", "zpx", 2, 4, FALSE),  \* CMP 0xd5, line 1009
  R(205, "cmp", "", "a", "abs", 3, 4, FALSE),  \* CMP 0xcd, line 1015
  R(221, "cmp", "", "a", "absx", 3, 4, TRUE),  \* CMP 0xdd, line 1021
  R(217, "cmp", "", "a", "absy", 3, 4, TRUE),  \* CMP 0xd9, line 1027
  R(193, "cmp", "", "a", "indx", 2, 6, FALSE),  \* CMP 0xc1, line 1033
  R(209, "cmp", "", "a", "indy", 2, 5, TRUE),  \* CMP 0xd1, line 1039
  R(224, "cmp", "", "x", "imm", 2, 2, FALSE),  \* CPX 0xe0, line 1047
  R(228, "cmp", "", "x", "zp", 2, 3, FALSE),  \* CPX 0xe4, line 1052
  R(236, "cmp", "", "x", "abs", 3, 4, FALSE),  \* CPX 0xec, line 1058
  R(192, "cmp", "", "y", "imm", 2, 2, FALSE),  \* CPY 0xc0, line 1066
  R(196, "cmp", "", "y", "zp", 2, 3, FALSE),  \* CPY 0xc4, line 1071
  R(204, "cmp", "", "y", "abs", 3, 4, FALSE),  \* CPY 0xcc, line 1077
  R(198, "rmw", "dec", "", "zp", 2, 5, FALSE),  \* DEC 0xc6, line 1085
  R(214, "rmw", "dec", "", "zpx", 2, 6, FALSE),  \* DEC 0xd6, line 1092
  R(206, "rmw", "dec", "", "abs", 3, 6, FALSE),  \* DEC 0xce, line 1099
  R(222, "rmw", "dec", "", "absx", 3, 7, FALSE),  \* DEC 0xde, line 1106
  R(202, "rmwreg", "dec", "x", "impl", 1, 2, FALSE),  \* DEX 0xca, line 1115
  R(136, "rmwreg", "dec", "y", "impl", 1, 2, FALSE),  \* DEY 0x88, line 1122
  R( 73, "alu", "eor", "a", "imm", 2, 2, FALSE),  \* EOR 0x49, line 1129
  R( 69, "alu", "eor", "a", "zp", 2, 3, FALSE),  \* EOR 0x45, line 1134
  R( 85, "alu", "eor", "a", "zpx", 2, 4, FALSE),  \* EOR 0x55, line 1140
  R( 77, "alu", "eor", "a", "abs", 3, 4, FALSE),  \* EOR 0x4d, line 1146
  R( 93, "alu", "eor", "a", "absx", 3, 4, TRUE),  \* EOR 0x5d, line 1152
  R( 89, "alu", "eor", "a", "absy", 3, 4, TRUE),  \* EOR 0x59, line 1158
  R( 65, "alu", "eor", "a", "indx", 2, 6, FALSE),  \* EOR 0x41, line 1164
  R( 81, "alu", "eor", "a", "indy", 2, 5, TRUE),  \* EOR 0x51, line 1170
  R(230, "rmw", "inc", "", "zp", 2, 5, FALSE),  \* INC 0xe6, line 1178
  R(246, "rmw", "inc", "", "zpx", 2, 6, FALSE),  \* INC 0xf6, line 1185
  R(238, "rmw", "inc", "", "abs", 3, 6, FALSE),  \* INC 0xee, line 1192
  R(254, "rmw", "inc", "", "absx", 3, 7, FALSE),  \* INC 0xfe, line 1199
  R(232, "rmwreg", "inc", "x", "impl", 1, 2, FALSE),  \* INX 0xe8, line 1208
  R(200, "rmwreg", "inc", "y", "impl", 1, 2, FALSE),  \* INY 0xc8, line 1215
  R( 76, "jmp", "", "", "abs", 0, 3, FALSE),  \* JMP 0x4c, line 1222
  R(108, "jmpind", "", "", "ind", 0, 5, FALSE),  \* JMP 0x6c, line 1226
  R( 32, "jsr", "", "", "abs", 0, 6, FALSE),  \* JSR 0x20, line 1233
  R(169, "ld", "", "a", "imm", 2, 2, FALSE),  \* LDA 0xa9, line 1240
  R(165, "ld", "", "a", "zp", 2, 3, FALSE),  \* LDA 0xa5, line 1246
  R(181, "ld", "", "a", "zpx", 2, 4, FALSE),  \* LDA 0xb5, line 1253
  R(173, "ld", "", "a", "abs", 3, 4, FALSE),  \* LDA 0xad, line 1260
  R(189, "ld", "", "a", "absx", 3, 4, TRUE),  \* LDA 0xbd, line 1267
  R(185, "ld", "", "a", "absy", 3, 4, TRUE),  \* LDA 0xb9, line 1274
  R(161, "ld", "", "a", "indx", 2, 6, FALSE),  \* LDA 0xa1, line 1281
  R(177, "ld", "", "a", "indy", 2, 5, TRUE),  \* LDA 0xb1, line 1288
  R(162, "ld", "", "x", "imm", 2, 2, FALSE),  \* LDX 0xa2, line 1297
  R(166, "ld", "", "x", "zp", 2, 3, FALSE),  \* LDX 0xa6, line 1303
  R(182, "ld", "", "x", "zpy", 2, 4, FALSE),  \* LDX 0xb6, line 1310
  R(174, "ld", "", "x", "abs", 3, 4, FALSE),  \* LDX 0xae, line 1317
  R(190, "ld", "", "x", "absy", 3, 4, TRUE),  \* LDX 0xbe, line 1324
  R(160, "ld", "", "y", "imm", 2, 2, FALSE),  \* LDY 0xa0, line 1333
  R(164, "ld", "", "y", "zp", 2, 3, FALSE),  \* LDY 0xa4, line 1339
  R(180, "ld", "", "y", "zpx", 2, 4, FALSE),  \* LDY 0xb4, line 1346
  R(172, "ld", "", "y", "abs", 3, 4, FALSE),  \* LDY 0xac, line 1353
  R(188, "ld", "", "y", "absx", 3, 4, TRUE),  \* LDY 0xbc, line 1360
  R( 74, "rmwreg", "lsr", "a", "impl", 1, 2, FALSE),  \* LSR 0x4a, line 1369
  R( 70, "rmw", "lsr", "", "zp", 2, 5, FALSE),  \* LSR 0x46, line 1374
  R( 86, "rmw", "lsr", "", "zpx", 2, 6, FALSE),  \* LSR 0x56, line 1381
  R( 78, "rmw", "lsr", "", "abs", 3, 6, FALSE),  \* LSR 0x4e, line 1388
  R( 94, "rmw", "lsr", "", "absx", 3, 7, FALSE),  \* LSR 0x5e, line 1395
  R(234, "nop", "", "", "impl", 1, 2, FALSE),  \* NOP 0xea, line 1404
  R(  9, "alu", "ora", "a", "imm", 2, 2, FALSE),  \* ORA 0x09, line 1410
  R(  5, "alu", "ora", "a", "zp", 2, 3, FALSE),  \* ORA 0x05, line 1415
  R( 21, "alu", "ora", "a", "zpx", 2, 4, FALSE),  \* ORA 0x15, line 1421
  R( 13, "alu", "ora", "a", "abs", 3, 4, FALSE),  \* ORA 0x0d, line 1427
  R( 29, "alu", "ora", "a", "absx", 3, 4, TRUE),  \* ORA 0x1d, line 1433
  R( 25, "alu", "ora", "a", "absy", 3, 4, TRUE),  \* ORA 0x19, line 1439
  R(  1, "alu", "ora", "a", "indx", 2, 6, FALSE),  \* ORA 0x01, line 1445
  R( 17, "alu", "ora", "a", "indy", 2, 5, TRUE),  \* ORA 0x11, line 1451
  R( 72, "pha", "", "", "impl", 1, 3, FALSE),  \* PHA 0x48, line 1459
  R(  8, "php", "", "", "impl", 1, 3, FALSE),  \* PHP 0x08, line 1466
  R(104, "pla", "", "", "impl", 1, 4, FALSE),  \* PLA 0x68, line 1473
  R( 40, "plp", "", "", "impl", 1, 4, FALSE),  \* PLP 0x28, line 1481
  R( 42, "rmwreg", "rol", "a", "impl", 1, 2, FALSE),  \* ROL 0x2a, line 1488
  R( 38, "rmw", "rol", "", "zp", 2, 5, FALSE),  \* ROL 0x26, line 1493
  R( 54, "rmw", "rol", "", "zpx", 2, 6, FALSE),  \* ROL 0x36, line 1500
  R( 46, "rmw", "rol", "", "abs", 3, 6, FALSE),  \* ROL 0x2e, line 1507
  R( 62, "rmw", "rol", "", "absx", 3, 7, FALSE),  \* ROL 0x3e, line 1514
  R(106, "rmwreg", "ror", "a", "impl", 1, 2, FALSE),  \* ROR 0x6a, line 1523
  R(102, "rmw", "ror", "", "zp", 2, 5, FALSE),  \* ROR 0x66, line 1528
  R(118, "rmw", "ror", "", "zpx", 2, 6, FALSE),  \* ROR 0x76, line 1535
  R(110, "rmw", "ror", "", "abs", 3, 6, FALSE),  \* ROR 0x6e, line 1542
  R(126, "rmw", "ror", "", "absx", 3, 7, FALSE),  \* ROR 0x7e, line 1549
  R( 64, "rti", "", "", "impl", 0, 6, FALSE),  \* RTI 0x40, line 1558
  R( 96, "rts", "", "", "impl", 0, 6, FALSE),  \* RTS 0x60, line 1565
  R(233, "alu", "sbc", "a", "imm", 2, 2, FALSE),  \* SBC 0xe9, line 1571
  R(229, "alu", "sbc", "a", "zp", 2, 3, FALSE),  \* SBC 0xe5, line 1576
  R(245, "alu", "sbc", "a", "zpx", 2, 4, FALSE),  \* SBC 0xf5, line 1582
  R(237, "alu", "sbc", "a", "abs", 3, 4, FALSE),  \* SBC 0xed, line 1588
  R(253, "alu", "sbc", "a", "absx", 3, 4, TRUE),  \* SBC 0xfd, line 1594
  R(249, "alu", "sbc", "a", "absy", 3, 4, TRUE),  \* SBC 0xf9, line 1600
  R(225, "alu", "sbc", "a", "indx", 2, 6, FALSE),  \* SBC 0xe1, line 1606
  R(241, "alu", "sbc", "a", "indy", 2, 5, TRUE),  \* SBC 0xf1, line 1612
  R( 56, "flag", "carry", "true", "impl", 1, 2, FALSE),  \* SEC 0x38, line 1620
  R(248, "flag", "decimal_mode", "true", "impl", 1, 2, FALSE),  \* SED 0xf8, line 1627
  R(120, "flag", "interrupt_disable", "true", "impl", 1, 2, FALSE),  \* SEI 0x78, line 1634
  R(133, "st", "", "a", "zp", 2, 3, FALSE),  \* STA 0x85, line 1641
  R(149, "st", "", "a", "zpx", 2, 4, FALSE),  \* STA 0x95, line 1646
  R(141, "st", "", "a", "abs", 3, 4, FALSE),  \* STA 0x8d, line 1651
  R(157, "st", "", "a", "absx", 3, 5, FALSE),  \* STA 0x9d, line 1656
  R(153, "st", "", "a", "absy", 3, 5, FALSE),  \* STA 0x99, line 1661
  R(129, "st", "", "a", "indx", 2, 6, FALSE),  \* STA 0x81, line 1666
  R(145, "st", "", "a", "indy", 2, 6, FALSE),  \* STA 0x91, line 1671
  R(134, "st", "", "x", "zp", 2, 3, FALSE),  \* STX 0x86, line 1678
  R(150, "st", "", "x", "zpy", 2, 4, FALSE),  \* STX 0x96, line 1683
  R(142, "st", "", "x", "abs", 3, 4, FALSE),  \* STX 0x8e, line 1688
  R(132, "st", "", "y", "zp", 2, 3, FALSE),  \* STY 0x84, line 1695
  R(148, "st", "", "y", "zpx", 2, 4, FALSE),  \* STY 0x94, line 1700
  R(140, "st", "", "y", "abs", 3, 4, FALSE),  \* STY 0x8c, line 1705
  R(170, "tr", "a", "x", "impl", 1, 2, FALSE),  \* TAX 0xaa, line 1712
  R(168, "tr", "a", "y", "impl", 1, 2, FALSE),  \* TAY 0xa8, line 1720
  R(186, "tr", "s", "x", "impl", 1, 2, FALSE),  \* TSX 0xba, line 1728
  R(138, "tr", "x", "a", "impl", 1, 2, FALSE),  \* TXA 0x8a, line 1735
  R(154, "txs", "", "", "impl", 1, 2, FALSE),  \* TXS 0x9a, line 1743
  R(152, "tr", "y", "a", "impl", 1, 2, FALSE)   \* TYA 0x98, line 1750
}

OpCodes == {r.op : r \in OpRows}

\* the `_` arm
NoRow == R(0, "invalid", "", "", "impl", 0, 0, FALSE)

pick_row(rows) == IF rows = {} THEN NoRow ELSE CHOOSE r \in rows : TRUE

Decode(opcode) == pick_row({r \in OpRows : r.op = opcode})

(***************************************************************************)
(* Bus accesses made by step, recorded in the trace when they touch a      *)
(* register (0x2000..0x401F).  A write is recorded before it takes effect, *)
(* so that the events of an NMI it raises follow it.  joy.latched is the   *)
(* button state at the last write that took bit 0 of 0x4016 from 0 to 1;   *)
(* joy.held says that no key event changed a button since the last write   *)
(* of bit 0 = 1.                                                           *)
(***************************************************************************)
rd_log(m1, addr) == IF IsIO(addr) THEN Log(m1, "r", addr, m1.ret) ELSE m1

Rd(m, addr) == rd_log(read(m, addr), addr)

\* the low byte, read after the high byte that m1 left in ret
RdLo(m1, addr) == hi_lo(Rd(m1, addr), m1.ret)

Rd16(m, addr) == RdLo(Rd(m, U16(addr + 1)), addr)

Observe(m, addr, val) ==
  IF addr = JOYPAD /\ val % 2 = 1
  THEN [m EXCEPT !.joy = [latched |-> IF m.apu_and_io_regs[addr - 16384] % 2 = 0
                                      THEN m.buttons ELSE @.latched,
                          held |-> TRUE]]
  ELSE m

Wr(m, addr, val) ==
  write(IF IsIO(addr) THEN Observe(Log(m, "w", addr, val), addr, val) ELSE m, addr, val)

(***************************************************************************)
(* step (main.rs 741-1765).                                                *)
(***************************************************************************)
Reg(m, r) ==
  CASE r = "a" -> m.a [] r = "x" -> m.x [] r = "y" -> m.y [] r = "s" -> m.s

SetReg(m, r, v) ==
  CASE r = "a" -> [m EXCEPT !.a = v]
    [] r = "x" -> [m EXCEPT !.x = v]
    [] r = "y" -> [m EXCEPT !.y = v]

Flag(m, f) ==
  CASE f = "carry" -> m.carry
    [] f = "zero" -> m.zero
    [] f = "negative" -> m.negative
    [] f = "overflow" -> m.overflow

SetFlag(m, f, v) ==
  CASE f = "carry" -> [m EXCEPT !.carry = v]
    [] f = "decimal_mode" -> [m EXCEPT !.decimal_mode = v]
    [] f = "interrupt_disable" -> [m EXCEPT !.interrupt_disable = v]
    [] f = "overflow" -> [m EXCEPT !.overflow = v]

Alu(m, fn, op) ==
  CASE fn = "adc" -> adc(m, op)
    [] fn = "and" -> and(m, op)
    [] fn = "eor" -> eor(m, op)
    [] fn = "ora" -> ora(m, op)
    [] fn = "sbc" -> sbc(m, op)
    [] fn = "asl" -> asl(m, op)
    [] fn = "lsr" -> lsr(m, op)
    [] fn = "rol" -> rol(m, op)
    [] fn = "ror" -> ror(m, op)
    [] fn = "inc" -> inc(m, op)
    [] fn = "dec" -> dec(m, op)

\* the default arm: `self.pc += 1; panic!("Invalid opcode: ...")`
invalid_opcode(m, opcode) ==
  IF m.pc + 1 > 65535 /\ overflow_checks
  THEN Panic(m, "overflow", 0)
  ELSE Panic([m EXCEPT !.pc = U16(@ + 1)], "invalid_opcode", opcode)

\* the addresses of the operands of all addressing modes (main.rs 753-768)
zero_page_addr(imm8) == imm8

\* a Zero page,X address that carries into page 1
zero_page_x_addr_unwrapped(m, imm8) == imm8 + m.x

zero_page_x_addr(m, imm8) == U8(imm8 + m.x)

zero_page_y_addr(m, imm8) == U8(imm8 + m.y)

absolute_x_addr(m, imm16) == U16(imm16 + m.x)

absolute_y_addr(m, imm16) == U16(imm16 + m.y)

indirect_x_addr(m, imm8) ==
  256 * read(m, U8(imm8 + m.x + 1)).ret + read(m, U8(imm8 + m.x)).ret

indirect_y_base(m, imm8) == 256 * read(m, U8(imm8 + 1)).ret + read(m, imm8).ret

indirect_y_addr(m, imm8) == U16(indirect_y_base(m, imm8) + m.y)

absolute_x_crossed_page(m, imm16) == (absolute_x_addr(m, imm16) \div 256) # (imm16 \div 256)

absolute_y_crossed_page(m, imm16) == (absolute_y_addr(m, imm16) \div 256) # (imm16 \div 256)

indirect_y_crossed_page(m, imm8) ==
  (indirect_y_addr(m, imm8) \div 256) # (indirect_y_base(m, imm8) \div 256)

\* the address an arm of mode `mode` works on
operand_addr(m, mode, imm8, imm16) ==
  CASE mode = "zp" -> zero_page_addr(imm8)
    [] mode = "zpx" -> zero_page_x_addr(m, imm8)
    [] mode = "zpy" -> zero_page_y_addr(m, imm8)
    [] mode = "abs" -> imm16
    [] mode = "absx" -> absolute_x_addr(m, imm16)
    [] mode = "absy" -> absolute_y_addr(m, imm16)
    [] mode = "indx" -> indirect_x_addr(m, imm8)
    [] mode = "indy" -> indirect_y_addr(m, imm8)
    [] OTHER -> 0

\* no indexed access ever counted as crossing a page
crossed_page_never(m, mode, imm8, imm16) == FALSE

crossed_page(m, mode, imm8, imm16) ==
  CASE mode = "absx" -> absolute_x_crossed_page(m, imm16)
    [] mode = "absy" -> absolute_y_crossed_page(m, imm16)
    [] mode = "indy" -> indirect_y_crossed_page(m, imm8)
    [] OTHER -> FALSE

\* the addresses step() reads before `match opcode` (main.rs 745-764): the
\* opcode, imm16, imm8 and the two zero-page pointers, whatever the opcode
prefetch_addrs(m, imm8) ==
  {m.pc, U16(m.pc + 1), U16(U16(m.pc + 1) + 1),
   U8(imm8 + m.x + 1), U8(imm8 + m.x), U8(imm8 + 1), imm8}

\* an arm that reads its operand a second time
operand_read_twice(m, mode, imm8, addr) ==
  IF mode = "imm" THEN [m EXCEPT !.ret = imm8] ELSE Rd(Rd(m, addr), addr)

\* the arm's operand, left in ret: imm8, or `let .._arg = self.read(.._addr)`
operand(m, mode, imm8, addr) ==
  IF mode = "imm" THEN [m EXCEPT !.ret = imm8] ELSE Rd(m, addr)

\* what an arm starts from, left in ret: its operand, or the register or
\* flags byte it works on
fetched(m, d, imm8, addr) ==
  CASE d.cls \in {"alu", "cmp", "ld", "bit", "rmw"} -> operand(m, d.mode, imm8, addr)
    [] d.cls \in {"rmwreg", "st"} -> [m EXCEPT !.ret = Reg(m, d.reg)]
    [] d.cls = "pha" -> [m EXCEPT !.ret = m.a]
    [] d.cls = "php" -> [m EXCEPT !.ret = get_flags_byte(m, TRUE)]
    [] OTHER -> m

\* the ALU helper the arm calls on it, if any
computed(mA, d) ==
  IF d.cls \in {"alu", "rmw", "rmwreg"} THEN Alu(mA, d.fn, mA.ret) ELSE mA

cmp_arg(mA, v) == cmp(mA, v, mA.ret)

bit_arg(mA) == bit(mA, mA.ret)

ret_to_reg(r, reg) == SetReg(r, reg, r.ret)

ret_to_mem(r, addr) == Wr(r, addr, r.ret)

ret_to_stack(r) == push(r, r.ret)

ret_loaded(r, reg) == update_nz_flags(SetReg(r, reg, r.ret), r.ret)

ret_to_pc(r, off, cyc) == [r EXCEPT !.pc = U16(r.ret + off), !.cycles = @ + cyc]

\* where the arm leaves the result r
finish(m, r, d, addr) ==
  CASE d.cls \in {"alu", "rmwreg"} -> ret_to_reg(r, d.reg)
    [] d.cls = "cmp" -> cmp_arg(r, Reg(m, d.reg))
    [] d.cls = "ld" -> ret_loaded(r, d.reg)
    [] d.cls = "bit" -> bit_arg(r)
    [] d.cls \in {"rmw", "st"} -> ret_to_mem(r, addr)
    [] d.cls \in {"pha", "php"} -> ret_to_stack(r)
    [] d.cls = "flag" -> SetFlag(m, d.fn, d.reg = "true")
    [] d.cls = "tr" -> update_nz_flags(SetReg(m, d.reg, Reg(m, d.fn)), Reg(m, d.fn))
    [] d.cls = "nop" -> m
    [] d.cls = "txs" -> [m EXCEPT !.s = m.x]
    [] d.cls = "pla" -> ret_loaded(pop(m), "a")
    [] d.cls = "plp" -> pop_flags(m)

\* the arms that end in `self.pc = self.pc.wrapping_add(len); self.cycles += cyc`
arm(m, d, imm8, addr) == finish(m, computed(fetched(m, d, imm8, addr), d), d, addr)

\* every arm charging the page crossing of its addressing mode
advance_charges_crossing(body, d, crossed) ==
  [body EXCEPT !.pc = U16(@ + d.len), !.cycles = @ + d.cyc + B2N(crossed)]

\* an arm that moves pc and charges nothing
advance_uncharged(body, d, crossed) == [body EXCEPT !.pc = U16(@ + d.len)]

\* an arm that steps over the opcode byte only
advance_opcode_only(body, d, crossed) ==
  [body EXCEPT !.pc = U16(@ + 1), !.cycles = @ + d.cyc + B2N(d.cross /\ crossed)]

advance(body, d, crossed) ==
  [body EXCEPT !.pc = U16(@ + d.len), !.cycles = @ + d.cyc + B2N(d.cross /\ crossed)]

\* BRK and JSR, mP being the machine after `self.push16(self.pc.wrapping_add(2))`
brk(mP, cyc) ==
  [ret_to_pc(Rd16(push_flags(mP, TRUE), BRK_VECTOR), 0, cyc) EXCEPT !.interrupt_disable = TRUE]

call(mP, d, imm16) ==
  IF d.cls = "brk" THEN brk(mP, d.cyc) ELSE [mP EXCEPT !.pc = imm16, !.cycles = @ + d.cyc]

\* RTI and RTS, mF being the machine after `self.pop_flags()` in RTI
return(mF, d) == ret_to_pc(pop16(mF), IF d.cls = "rts" THEN 1 ELSE 0, d.cyc)

\* JMP (indirect): where the high byte of the target is read, had the
\* pointer's increment carried into its high byte
indirect_hi_addr_carries(absolute_addr) == U16(absolute_addr + 1)

\* `(absolute_addr & 0xff00) | ((absolute_addr as u8).wrapping_add(1) as u16)`
indirect_hi_addr(absolute_addr) ==
  (absolute_addr \div 256) * 256 + U8((absolute_addr % 256) + 1)

\* `match opcode` (main.rs 772-1761)
execute(m, opcode, imm8, imm16, d) ==
  CASE d.cls = "invalid" -> invalid_opcode(m, opcode)
    [] d.cls = "branch" -> branch(m, Flag(m, d.fn) = (d.reg = "true"), imm8)
    [] d.cls \in {"brk", "jsr"} -> call(push16(m, U16(m.pc + 2)), d, imm16)
    [] d.cls = "jmp" -> [m EXCEPT !.pc = imm16, !.cycles = @ + d.cyc]
    [] d.cls = "jmpind" ->
         ret_to_pc(RdLo(Rd(m, indirect_hi_addr(imm16)), imm16), 0, d.cyc)
    [] d.cls \in {"rti", "rts"} -> return(IF d.cls = "rti" THEN pop_flags(m) ELSE m, d)
    [] OTHER ->
         advance(arm(m, d, imm8, operand_addr(m, d.mode, imm8, imm16)), d,
                 crossed_page(m, d.mode, imm8, imm16))

\* the operand prefetch (main.rs 745-751): opcode, imm16, then imm8
step_match(m, opcode, imm16) == execute(m, opcode, m.ret, imm16, Decode(opcode))

step_imm8(mW, opcode) == step_match(Rd(mW, U16(mW.pc + 1)), opcode, mW.ret)

step_imm16(mF) == step_imm8(Rd16(mF, U16(mF.pc + 1)), mF.ret)

step(m0) == step_imm16(Rd(Log(m0, "step", m0.pc, read(m0, m0.pc).ret), m0.pc))

(***************************************************************************)
(* Nes::new (main.rs 248-307) for a well-formed iNES image: rom.prg and    *)
(* rom.chr are the non-zero bytes of the PRG and CHR banks by offset.      *)
(* PRG goes through write at 0xC000 (one bank) or 0x8000 (two), CHR        *)
(* through ppu_write at 0, and pc is loaded from the reset vector.         *)
(***************************************************************************)
NonZero(img) == {i \in DOMAIN img : img[i] # 0}

\* `result.write(base + prg_rom_no * 0x4000 + i, byte)`: the cartridge arm of write
install_prg(m, rom) ==
  LET base == IF rom.prg_rom_size = 2 THEN 32768 ELSE 49152
  IN [m EXCEPT !.cartridge =
        [k \in {base + i - 16416 : i \in NonZero(rom.prg)} |-> rom.prg[k + 16416 - base]]]

\* `result.ppu_write(chr_rom_no * 0x2000 + i, byte)`: the first arm of ppu_write
install_chr(m, rom) ==
  [m EXCEPT !.ppu_cartridge = [k \in NonZero(rom.chr) |-> rom.chr[k]]]

new(rom) ==
  LET m0 == Machine(Default, << >>, JoyInit)
      m1 == install_chr(install_prg(m0, rom), rom)
      m2 == read16(m1, RESET_VECTOR)
  IN Core([m2 EXCEPT !.pc = m2.ret])

(***************************************************************************)
(* The ROM images the model is run on.  Every image is one 16 KiB PRG bank *)
(* (CPU 0xC000..0xFFFF) with the reset vector at 0xC000, the NMI vector at *)
(* 0xC080 and the IRQ/BRK vector left erased (0xFFFF), and one CHR bank.   *)
(* Code ends in the undocumented byte 0x02.                                *)
(***************************************************************************)
Place(off, bytes) == [i \in off..(off + Len(bytes) - 1) |-> bytes[i - off + 1]]

Lo(a) == a % 256
Hi(a) == a \div 256

LDA_imm(v) == <<169, v>>
LDX_imm(v) == <<162, v>>
LDA_abs(a) == <<173, Lo(a), Hi(a)>>
STA_abs(a) == <<141, Lo(a), Hi(a)>>
STX_abs(a) == <<142, Lo(a), Hi(a)>>
PHA == <<72>>
NOP == <<234>>
RTI == <<64>>
JAM == <<2>>

HandlerOff == 128

Vectors == Place(16378, <<Lo(49152 + HandlerOff), Hi(49152 + HandlerOff), 0, 192, 255, 255>>)

Handler == Place(HandlerOff, NOP \o NOP \o NOP \o RTI \o JAM)

Chr == Place(1, <<119>>) @@ Place(32, <<51>>)

Rom(code, data) ==
  [prg_rom_size |-> 1, chr_rom_size |-> 1,
   prg |-> Place(0, code) @@ Handler @@ data @@ Vectors,
   chr |-> Chr]

DmaRom(d, page, pad) ==
  Rom(LDX_imm(165) \o STX_abs(767) \o STX_abs(513)
      \o LDA_imm(d) \o STA_abs(OAMADDR)
      \o (IF pad THEN PHA ELSE << >>)
      \o LDA_imm(page) \o STA_abs(OAMDMA) \o JAM,
      Place(254, <<90, 60>>))

NmiRom(clear_vblank, v1, v2) ==
  Rom((IF clear_vblank THEN LDA_imm(0) \o STA_abs(PPUSTATUS) ELSE << >>)
      \o LDA_imm(v1) \o STA_abs(PPUCTRL)
      \o LDA_imm(v2) \o STA_abs(PPUCTRL + 8184) \o JAM,
      Empty)

JoyRom ==
  Rom(LDA_imm(1) \o STA_abs(JOYPAD) \o LDA_imm(0) \o STA_abs(JOYPAD)
      \o LDA_abs(JOYPAD) \o LDA_abs(JOYPAD) \o LDA_abs(JOYPAD)
      \o LDA_abs(JOYPAD) \o LDA_abs(JOYPAD) \o LDA_abs(JOYPAD)
      \o LDA_abs(JOYPAD) \o LDA_abs(JOYPAD) \o LDA_abs(JOYPAD) \o JAM,
      Empty)

MirrorRom(i, v) ==
  Rom(LDA_imm(v) \o STA_abs(8192 + i) \o LDA_abs(16376 + i) \o LDA_abs(8192 + i) \o JAM,
      Empty)

Roms ==
  {DmaRom(d, page, pad) : d \in {0, 1, 255}, page \in {2, 192}, pad \in BOOLEAN}
  \cup {NmiRom(c, v1, v2) : c \in BOOLEAN, v1 \in {16, 128}, v2 \in {0, 128}}
  \cup {JoyRom}
  \cup {MirrorRom(i, v) : i \in 0..7, v \in {65, 6}}

\* the keys the host maps (main.rs 1798-1814), restricted to A, B and Right
Keys == {0, 1, 7}

(***************************************************************************)
(* The game loop (main.rs 1796-1831): one iteration polls at most one      *)
(* event and then, unless paused, executes one instruction.  Rendering     *)
(* (every 8192 steps) reads PPUCTRL and PPU memory only and is left out.   *)
(***************************************************************************)
Running == [kind |-> "running", opcode |-> 0]

Alive == status.kind = "running" /\ nes.cycles < MaxCycles

Touch(j, changed) == IF changed THEN [j EXCEPT !.held = FALSE] ELSE j

\* what the loop keeps of the machine after `nes.step()`; a panic ends the process
Stepped(m, n1) ==
  /\ trace' = m.trace
  /\ joy' = m.joy
  /\ IF m.panic.kind = "none"
     THEN nes' = Core(m) /\ status' = status
     ELSE nes' = n1 /\ status' = m.panic

Iterate(n1, p1, j1) ==
  /\ paused' = p1
  /\ UNCHANGED overflow_checks
  /\ IF p1
     THEN nes' = n1 /\ trace' = trace /\ joy' = j1 /\ status' = status
     ELSE Stepped(step(Machine(n1, trace, j1)), n1)

NoEvent ==
  /\ Alive
  /\ UNCHANGED events
  /\ Iterate(nes, paused, joy)

KeyDown(b) ==
  /\ Alive
  /\ events < MaxEvents
  /\ events' = events + 1
  /\ Iterate(key_down(nes, b), paused, Touch(joy, ~nes.buttons[b]))

KeyUp(b) ==
  /\ Alive
  /\ events < MaxEvents
  /\ events' = events + 1
  /\ Iterate(key_up(nes, b), paused, Touch(joy, nes.buttons[b]))

Pause ==
  /\ Alive
  /\ events < MaxEvents
  /\ events' = events + 1
  /\ Iterate(nes, ~paused, joy)

Quit ==
  /\ Alive
  /\ events < MaxEvents
  /\ events' = events + 1
  /\ status' = [kind |-> "quit", opcode |-> 0]
  /\ UNCHANGED <<nes, paused, trace, joy, overflow_checks>>

Init ==
  /\ \E rom \in Roms : nes = new(rom)
  /\ paused = FALSE
  /\ status = Running
  /\ trace = << >>
  /\ joy = JoyInit
  /\ overflow_checks \in BOOLEAN
  /\ events = 0

Next ==
  \/ NoEvent
  \/ \E b \in Keys : KeyDown(b)
  \/ \E b \in Keys : KeyUp(b)
  \/ Pause
  \/ Quit

Spec == Init /\ [][Next]_vars

(***************************************************************************)
(* Vocabulary of the properties.                                           *)
(***************************************************************************)
\* the byte a CPU address holds, for addresses of RAM and cartridge space
Mem(n, addr) == read(Machine(n, << >>, JoyInit), addr).ret

Mem16(n, addr) == 256 * Mem(n, U16(addr + 1)) + Mem(n, addr)

PlainPage(page) == page < 32 \/ page > 64

IsBus(e) == e.k = "r" \/ e.k = "w"

IsStepEv(e) == e.k = "step"

IsNmiEv(e) == e.k = "nmi"

\* the register accesses of the run, oldest first
Bus(t) == SelectSeq(t, IsBus)

\* index of the marker of the last instruction, 0 before the first
LastStepIdx(t) ==
  IF \E i \in 1..Len(t) : t[i].k = "step"
  THEN CHOOSE i \in 1..Len(t) : t[i].k = "step" /\ \A j \in (i + 1)..Len(t) : t[j].k # "step"
  ELSE 0

\* the events of the last instruction, its marker first
LastStep(t) == IF LastStepIdx(t) = 0 THEN << >> ELSE SubSeq(t, LastStepIdx(t), Len(t))

\* the last instruction wrote to the OAMDMA register; DmaPage is what it wrote
DmaDone ==
  /\ status.kind = "running"
  /\ Len(trace) > 0
  /\ trace[Len(trace)].k = "w"
  /\ trace[Len(trace)].a = OAMDMA

DmaPage == trace[Len(trace)].v

\* C1: a write of page to 0x4014 while OAMADDR is 0 leaves OAM[k] equal to
\* the byte at page * 0x100 + k for every k in 0..255
C1_DmaCopiesWholePage ==
  (DmaDone /\ PlainPage(DmaPage) /\ nes.ppu_regs[OAMADDR % 8] = 0)
    => \A k \in 0..255 : nes.oam[k] = Mem(nes, 256 * DmaPage + k)

\* C2: a write of page to 0x4014 while OAMADDR holds d leaves the byte at
\* page * 0x100 + k in OAM[(d + k) mod 256] for every k in 0..255
C2_DmaStartsAtOamaddr ==
  (DmaDone /\ PlainPage(DmaPage))
    => \A k \in 0..255 :
         nes.oam[(nes.ppu_regs[OAMADDR % 8] + k) % 256] = Mem(nes, 256 * DmaPage + k)

(***************************************************************************)
(* NMI.                                                                    *)
(***************************************************************************)
IsCtrlWrite(e) == e.k = "w" /\ e.a >= 8192 /\ e.a < 16384 /\ e.a % 8 = 0

\* the last instruction wrote to PPUCTRL or a mirror; CtrlVal is what it wrote
WroteCtrl(t) == Len(SelectSeq(LastStep(t), IsCtrlWrite)) > 0

CtrlVal(t) == SelectSeq(LastStep(t), IsCtrlWrite)[1].v

\* nmi_interrupt ran in the last instruction; NmiEv is its event
TookNmi(t) == Len(SelectSeq(LastStep(t), IsNmiEv)) > 0

NmiEv(t) == SelectSeq(LastStep(t), IsNmiEv)[1]

\* PC and opcode of the last instruction
LastPc(t) == LastStep(t)[1].a

LastOp(t) == LastStep(t)[1].v

\* this transition executed an instruction to its end
StepRan == nes'.cycles # nes.cycles

\* C3: a PPUCTRL write takes an NMI only if bit 7 of the stored PPUCTRL was
\* 0 and bit 7 of the written value is 1
C3_NmiOnlyOnRisingEdge ==
  [][(StepRan /\ WroteCtrl(trace') /\ TookNmi(trace'))
       => (Bit(nes.ppu_regs[PPUCTRL_I], 7) = 0 /\ Bit(CtrlVal(trace'), 7) = 1)]_vars

\* C4: a PPUCTRL write takes an NMI only while vblank (bit 7 of PPUSTATUS)
\* is asserted
C4_NmiOnlyInVblank ==
  (status.kind = "running" /\ WroteCtrl(trace) /\ TookNmi(trace))
    => Bit(nes.ppu_regs[PPUSTATUS_I], 7) = 1

\* C5: an instruction that takes an NMI leaves the return PC (high, then
\* low) and the status byte with B = 0 on the stack, I set, 7 cycles more
\* than its own cost charged, and PC = read16(0xFFFA)
C5_NmiEntersAtVector ==
  [][(StepRan /\ TookNmi(trace'))
       => /\ nes'.s = U8(nes.s + 253)
          /\ Mem(nes', 256 + nes.s) = Hi(NmiEv(trace').a)
          /\ Mem(nes', 256 + U8(nes.s + 255)) = Lo(NmiEv(trace').a)
          /\ Bit(Mem(nes', 256 + U8(nes.s + 254)), 4) = 0
          /\ Bit(Mem(nes', 256 + U8(nes.s + 254)), 5) = 1
          /\ nes'.interrupt_disable
          /\ nes'.cycles = nes.cycles + Decode(LastOp(trace')).cyc + 7
          /\ nes'.pc = Mem16(nes', NMI_VECTOR)]_vars

\* C6: the return address an NMI pushes is the address of the instruction
\* after the one whose PPUCTRL write raised it
C6_NmiReturnsAfterWrite ==
  (status.kind = "running" /\ WroteCtrl(trace) /\ TookNmi(trace))
    => NmiEv(trace).a = U16(LastPc(trace) + Decode(LastOp(trace)).len)


(***************************************************************************)
(* Opcodes.  The 151 documented opcodes of the NMOS 6502, by mnemonic,     *)
(* from the processor's instruction set reference.                         *)
(***************************************************************************)
DocumentedOpcodes ==
  {
   105, 101, 117, 109, 125, 121, 97, 113,   \* ADC
   41, 37, 53, 45, 61, 57, 33, 49,   \* AND
   10, 6, 22, 14, 30,   \* ASL
   144,   \* BCC
   176,   \* BCS
   240,   \* BEQ
   36, 44,   \* BIT
   48,   \* BMI
   208,   \* BNE
   16,   \* BPL
   0,   \* BRK
   80,   \* BVC
   112,   \* BVS
   24,   \* CLC
   216,   \* CLD
   88,   \* CLI
   184,   \* CLV
   201, 197, 213, 205, 221, 217, 193, 209,   \* CMP
   224, 228, 236,   \* CPX
   192, 196, 204,   \* CPY
   198, 214, 206, 222,   \* DEC
   202,   \* DEX
   136,   \* DEY
   73, 69, 85, 77, 93, 89, 65, 81,   \* EOR
   230, 246, 238, 254,   \* INC
   232,   \* INX
   200,   \* INY
   76, 108,   \* JMP
   32,   \* JSR
   169, 165, 181, 173, 189, 185, 161, 177,   \* LDA
   162, 166, 182, 174, 190,   \* LDX
   160, 164, 180, 172, 188,   \* LDY
   74, 70, 86, 78, 94,   \* LSR
   234,   \* NOP
   9, 5, 21, 13, 29, 25, 1, 17,   \* ORA
   72,   \* PHA
   8,   \* PHP
   104,   \* PLA
   40,   \* PLP
   42, 38, 54, 46, 62,   \* ROL
   106, 102, 118, 110, 126,   \* ROR
   64,   \* RTI
   96,   \* RTS
   233, 229, 245, 237, 253, 249, 225, 241,   \* SBC
   56,   \* SEC
   248,   \* SED
   120,   \* SEI
   133, 149, 141, 157, 153, 129, 145,   \* STA
   134, 150, 142,   \* STX
   132, 148, 140,   \* STY
   170,   \* TAX
   168,   \* TAY
   186,   \* TSX
   138,   \* TXA
   154,   \* TXS
   152   \* TYA
  }

\* a program that starts with opcode b; what follows is zeros, and the BRK
\* they decode to leads through the erased vector to the byte 0xFF at 0xFFFF
OpRom(b) == Rom(<<b>>, Empty)

InitOps ==
  /\ \E b \in 0..255 : nes = new(OpRom(b))
  /\ paused = FALSE
  /\ status = Running
  /\ trace = << >>
  /\ joy = JoyInit
  /\ overflow_checks \in BOOLEAN
  /\ events = 0

SpecOps == InitOps /\ [][Next]_vars

\* C7: step() fails with the illegal-opcode error naming the fetched byte
\* when that byte is not a documented opcode, and does not fail when it is
C7_IllegalOpcodeIffUndocumented ==
  Len(LastStep(trace)) > 0 =>
    /\ LastOp(trace) \notin DocumentedOpcodes
         => status = [kind |-> "invalid_opcode", opcode |-> LastOp(trace)]
    /\ LastOp(trace) \in DocumentedOpcodes
         => status.kind \in {"running", "quit"}

(***************************************************************************)
(* Controller.                                                             *)
(***************************************************************************)
IsJoyEv(e) == IsBus(e) /\ e.a = JOYPAD

JoyBus == SelectSeq(trace, IsJoyEv)

\* the accesses to 0x4016 end with a write of 1, a write of 0 and n reads
StrobeThenReads(n) ==
  LET J == JoyBus
      base == Len(J) - n
  IN /\ base >= 2
     /\ J[base - 1] = Ev("w", JOYPAD, 1)
     /\ J[base] = Ev("w", JOYPAD, 0)
     /\ \A k \in 1..n : J[base + k].k = "r"

\* the value of the k-th of the last n reads of 0x4016
JoyRead(n, k) == JoyBus[Len(JoyBus) - n + k].v

\* C8: after a write of 1 and a write of 0 to 0x4016, with the buttons not
\* changed since, the k-th read returns buttons[(k - 1) mod 8], so eight
\* reads return buttons[0..7] in order and the ninth returns buttons[0]
C8_ReadsCycleThroughButtons ==
  \A n \in 1..9 :
    (StrobeThenReads(n) /\ joy.held)
      => \A k \in 1..n : JoyRead(n, k) = B2N(nes.buttons[(k - 1) % 8])

C8_NinthReadSeen ==
  /\ StrobeThenReads(9)
  /\ joy.held
  /\ nes.buttons[0]
  /\ JoyRead(9, 9) = 1
  /\ JoyRead(9, 8) = 0

\* C9: reads after a 0 -> 1 strobe transition return the button state
\* captured at the transition, whatever key_down and key_up did since
C9_ReadsReturnLatchedState ==
  \A n \in 1..9 :
    StrobeThenReads(n)
      => \A k \in 1..n : JoyRead(n, k) = B2N(joy.latched[(k - 1) % 8])

(***************************************************************************)
(* Mirrors of the PPU registers.                                           *)
(***************************************************************************)
\* the bus accesses end with a write to 0x2000 + i, a read of 0x3FF8 + i
\* and a read of 0x2000 + i
MirrorProbe(i) ==
  LET B == Bus(trace)
      n == Len(B)
  IN /\ n >= 3
     /\ B[n - 2].k = "w" /\ B[n - 2].a = 8192 + i
     /\ B[n - 1].k = "r" /\ B[n - 1].a = 16376 + i
     /\ B[n].k = "r" /\ B[n].a = 8192 + i

MirrorRead == Bus(trace)[Len(Bus(trace)) - 1].v

DirectRead == Bus(trace)[Len(Bus(trace))].v

\* C10 as stated: for every i in 0..7, after write(0x2000 + i, v),
\* read(0x3FF8 + i) returns the same value as the following read(0x2000 + i)
C10_MirrorReadsAgree ==
  \A i \in 0..7 : MirrorProbe(i) => MirrorRead = DirectRead

\* C10: for every i in 0..6, after write(0x2000 + i, v), read(0x3FF8 + i)
\* returns the same value as the following read(0x2000 + i); PPUDATA
\* (i = 7) is read through a buffer and is excluded
C10_MirrorReadsAgreeBelowPpudata ==
  \A i \in 0..6 : MirrorProbe(i) => MirrorRead = DirectRead

C10_MirrorReadSeen ==
  \E i \in 0..6 : MirrorProbe(i) /\ MirrorRead = 65 /\ DirectRead = 65

(***************************************************************************)
(* Programs for the arithmetic, stack, memory and branch instructions.     *)
(* They are run without host events: an event changes buttons and paused   *)
(* only, and none of these programs reads the controller.                  *)
(***************************************************************************)
SEC == <<56>>
CLC == <<24>>
ADC_imm(v) == <<105, v>>
SBC_imm(v) == <<233, v>>
ROL_A == <<42>>
ROR_A == <<106>>
TXS == <<154>>
PLA == <<104>>
PHP == <<8>>
BRK == <<0>>
RTS == <<96>>
JSR_abs(a) == <<32, Lo(a), Hi(a)>>

\* the bytes the arithmetic programs are run on: both ends of the unsigned
\* and of the signed range, and operands that carry, borrow and overflow
AluBytes == {0, 1, 2, 15, 80, 127, 128, 129, 160, 208, 254, 255}

SetCarry(c) == IF c THEN SEC ELSE CLC

AluRom(a, c, op, adc_first) ==
  Rom(LDA_imm(a) \o SetCarry(c)
      \o (IF adc_first THEN ADC_imm(op) \o SBC_imm(op) ELSE SBC_imm(op) \o ADC_imm(op))
      \o JAM,
      Empty)

RotRom(x, c, rol_first) ==
  Rom(LDA_imm(x) \o SetCarry(c)
      \o (IF rol_first THEN ROL_A \o ROR_A ELSE ROR_A \o ROL_A)
      \o JAM,
      Empty)

\* a store through mirror k of RAM cell a, then a load through each mirror
RamRom(a, k, v) ==
  Rom(LDA_imm(v) \o STA_abs(a + 2048 * k)
      \o LDA_abs(a) \o LDA_abs(a + 2048) \o LDA_abs(a + 4096) \o LDA_abs(a + 6144)
      \o JAM,
      Empty)

\* PHA / PLA and JSR / RTS with the stack pointer set to s
StackCode(s, v) == LDX_imm(s) \o TXS \o LDA_imm(v) \o PHA \o LDA_imm(0) \o PLA

StackRom(s, v) ==
  Rom(StackCode(s, v) \o JSR_abs(49152 + Len(StackCode(s, v)) + 4) \o JAM \o RTS \o JAM,
      Empty)

\* what sets the flags before a status push or a branch
FlagPrefixes ==
  {<< >>, SEC, LDA_imm(0), LDA_imm(128), LDA_imm(80) \o ADC_imm(80)}

PushRom(prefix, insn) == Rom(prefix \o insn \o JAM, Empty)

\* a two-bank image (CPU 0x8000..0xFFFF) whose code starts at start
RomAt(start, code) ==
  [prg_rom_size |-> 2, chr_rom_size |-> 1,
   prg |-> Place(start - 32768, code)
           @@ Place(32762, <<Lo(49152 + HandlerOff), Hi(49152 + HandlerOff),
                             Lo(start), Hi(start), 255, 255>>),
   chr |-> Chr]

BranchOps == {16, 48, 80, 112, 144, 176, 208, 240}

\* the addresses the branch is placed at, and its operands
BranchAt == {33013, 33021, 49168}

BranchRel == {0, 16, 127, 128, 240, 254}

BranchRom(p, prefix, opc, rel) == RomAt(p - Len(prefix), prefix \o <<opc, rel>>)

CpuRoms ==
  {AluRom(a, c, op, f) : a \in AluBytes, c \in BOOLEAN, op \in AluBytes, f \in BOOLEAN}
  \cup {RotRom(x, c, f) : x \in AluBytes, c \in BOOLEAN, f \in BOOLEAN}
  \cup {RamRom(a, k, v) : a \in {0, 1, 255, 256, 2047}, k \in 0..3, v \in {1, 165, 255}}
  \cup {StackRom(s, v) : s \in {0, 1, 2, 128, 253, 255}, v \in {1, 165, 255}}
  \cup {PushRom(prefix, insn) : prefix \in FlagPrefixes, insn \in {PHP, BRK}}
  \cup {BranchRom(p, prefix, opc, rel) :
          p \in BranchAt, prefix \in FlagPrefixes, opc \in BranchOps, rel \in BranchRel}
  \cup {OpRom(b) : b \in 0..255}
  \cup Roms

InitCpu ==
  /\ \E rom \in CpuRoms : nes = new(rom)
  /\ paused = FALSE
  /\ status = Running
  /\ trace = << >>
  /\ joy = JoyInit
  /\ overflow_checks \in BOOLEAN
  /\ events = 0

SpecCpu == InitCpu /\ [][NoEvent]_vars

(***************************************************************************)
(* Vocabulary of the instruction-level properties.                         *)
(***************************************************************************)
\* the instructions of the run, oldest first; the last one has run to its
\* end when Completed holds
Steps(t) == SelectSeq(t, IsStepEv)

Completed == status.kind = "running" /\ Len(Steps(trace)) > 0

\* the operand bytes of the instruction of step event e
Operand8(e) == Mem(nes, U16(e.a + 1))

Operand16(e) == Mem16(nes, U16(e.a + 1))

\* the k-th instruction before the last one (0: the last one)
Back(k) == Steps(trace)[Len(Steps(trace)) - k]

(***************************************************************************)
(* RAM mirroring.                                                          *)
(***************************************************************************)
\* instruction i is `LDA #v; STA w` with w in RAM, and every instruction
\* after it up to the last one is an LDA abs
StoredThenLoaded(i) ==
  /\ i > 1 /\ i < Len(Steps(trace))
  /\ Steps(trace)[i - 1].v = 169
  /\ Steps(trace)[i].v = 141
  /\ Operand16(Steps(trace)[i]) < 8192
  /\ \A k \in (i + 1)..Len(Steps(trace)) : Steps(trace)[k].v = 173

\* the last load reads the cell instruction i stored to, through any mirror
SameCell(i) ==
  /\ Operand16(Back(0)) < 8192
  /\ Operand16(Back(0)) % 2048 = Operand16(Steps(trace)[i]) % 2048

\* C11: after a write of v to a RAM address, through the base address or a
\* mirror, a read of the same cell through any of the four mirrors returns v
C11_RamMirrorsAgree ==
  Completed =>
    \A i \in 1..Len(Steps(trace)) :
      (StoredThenLoaded(i) /\ SameCell(i)) => nes.a = Operand8(Steps(trace)[i - 1])

\* a value stored through one mirror has been loaded through another
C11_MirrorLoadSeen ==
  /\ Completed
  /\ \E i \in 1..Len(Steps(trace)) :
       /\ StoredThenLoaded(i) /\ SameCell(i)
       /\ Operand16(Back(0)) = Operand16(Steps(trace)[i]) % 2048
       /\ Operand16(Steps(trace)[i]) >= 2048
       /\ nes.a = 165

(***************************************************************************)
(* The stack.                                                              *)
(***************************************************************************)
\* the run ends with the instructions of opcodes ops, the last one complete
Ran(ops) ==
  /\ Completed
  /\ Len(Steps(trace)) >= Len(ops)
  /\ \A k \in 1..Len(ops) : Back(Len(ops) - k).v = ops[k]

\* LDX #s; TXS; LDA #v; PHA -- then LDA #0; PLA -- then JSR -- then RTS
PushedA == <<162, 154, 169, 72>>

PulledA == PushedA \o <<169, 104>>

Called == PulledA \o <<32>>

Returned == Called \o <<96>>

\* no RAM cell outside page 1 was written
OnlyPage1 == \A i \in DOMAIN nes.ram : i \in 256..511

\* C12: PHA stores at 0x0100 + S and decrements S with 8-bit wrap, and a PLA
\* after it returns the byte and restores S; JSR pushes its return word
\* high byte first, and the RTS after it pops that word and restores S; no
\* stack access leaves page 1
C12_PushPopRoundTrip ==
  /\ Ran(PushedA) =>
       /\ Mem(nes, 256 + Operand8(Back(3))) = Operand8(Back(1))
       /\ nes.s = U8(Operand8(Back(3)) + 255)
       /\ OnlyPage1
  /\ Ran(PulledA) =>
       /\ nes.a = Operand8(Back(3))
       /\ nes.s = Operand8(Back(5))
       /\ OnlyPage1
  /\ Ran(Called) =>
       /\ Mem(nes, 256 + Operand8(Back(6))) = Hi(U16(Back(0).a + 2))
       /\ Mem(nes, 256 + U8(Operand8(Back(6)) + 255)) = Lo(U16(Back(0).a + 2))
       /\ nes.s = U8(Operand8(Back(6)) + 254)
       /\ OnlyPage1
  /\ Ran(Returned) =>
       /\ nes.pc = U16(Back(1).a + 2 + 1)
       /\ nes.s = Operand8(Back(7))
       /\ OnlyPage1

\* a word was pushed and popped with the stack pointer wrapping below 0x00
C12_WrappedRoundTripSeen ==
  /\ Ran(Returned)
  /\ Operand8(Back(7)) = 0
  /\ nes.s = 0
  /\ Operand8(Back(5)) = 165

(***************************************************************************)
(* The status byte on the stack.                                           *)
(***************************************************************************)
\* the byte pushed last
TopOfStack == Mem(nes, 256 + U8(nes.s + 1))

\* C13: the status byte pushed by PHP, by BRK and by an NMI has bit 5 set;
\* bit 4 is set in the byte pushed by PHP and BRK and clear in the byte
\* pushed by an NMI
C13_PushedStatusBits ==
  /\ (Ran(PHP) \/ Ran(BRK)) => (Bit(TopOfStack, 5) = 1 /\ Bit(TopOfStack, 4) = 1)
  /\ (Completed /\ TookNmi(trace)) => (Bit(TopOfStack, 5) = 1 /\ Bit(TopOfStack, 4) = 0)

\* an NMI has pushed a status byte with the negative flag set
C13_NmiStatusPushed ==
  /\ Completed
  /\ TookNmi(trace)
  /\ Bit(TopOfStack, 7) = 1
  /\ Bit(TopOfStack, 4) = 0

(***************************************************************************)
(* The cycle counter.                                                      *)
(***************************************************************************)
\* this transition executed an instruction and step() returned
StepReturned == status'.kind = "running" /\ trace' # trace

\* C14: no transition decreases the cycle counter, and every step() of a
\* documented opcode that returns leaves it strictly greater
C14_CyclesOnlyGrow ==
  [][/\ nes'.cycles >= nes.cycles
     /\ (StepReturned /\ LastOp(trace') \in DocumentedOpcodes)
          => nes'.cycles > nes.cycles]_vars

\* a DMA has been charged to the counter
C14_DmaChargeSeen ==
  /\ Completed
  /\ DmaDone
  /\ LastOp(trace) \in DocumentedOpcodes
  /\ nes.cycles > 513

\* C15: an instruction that writes to 0x4014 adds, on top of its own cost,
\* 513 to the cycle counter when the counter is even at the write and 514
\* when it is odd
C15_DmaChargeByParity ==
  [][(StepReturned /\ DmaDone')
       => nes'.cycles = nes.cycles + Decode(LastOp(trace')).cyc
                        + (IF nes.cycles % 2 = 0 THEN 513 ELSE 514)]_vars

\* a DMA was started on an odd cycle and charged 514
C15_OddStartSeen ==
  /\ Completed
  /\ DmaDone
  /\ nes.cycles = 21 + 4 + 514

(***************************************************************************)
(* Arithmetic.                                                             *)
(***************************************************************************)
\* this transition executed the instruction of opcode opc to its end
Executed(opc) == StepReturned /\ LastOp(trace') = opc

\* the operand byte of the instruction about to execute
Imm8 == Mem(nes, U16(nes.pc + 1))

Sign(v) == v \div 128

\* C16: ADC #op leaves A = (A + op + C) mod 256, C = (A + op + C > 0xFF),
\* V = (sign(A) = sign(op) and sign(result) # sign(op)), Z = (result = 0)
\* and N = bit 7 of the result; 0x50 + 0x50 with C = 0 gives A = 0xA0,
\* C = 0, V = 1, N = 1, Z = 0
C16_AdcResultAndFlags ==
  [][Executed(105) =>
       LET r == nes.a + Imm8 + B2N(nes.carry)
       IN /\ nes'.a = r % 256
          /\ nes'.carry = (r > 255)
          /\ nes'.overflow = (Sign(nes.a) = Sign(Imm8) /\ Sign(r % 256) # Sign(Imm8))
          /\ nes'.zero = (r % 256 = 0)
          /\ nes'.negative = (Bit(r % 256, 7) = 1)
          /\ (nes.a = 80 /\ Imm8 = 80 /\ ~nes.carry)
               => (nes'.a = 160 /\ ~nes'.carry /\ nes'.overflow
                   /\ nes'.negative /\ ~nes'.zero)]_vars

\* LDA #0x50; CLC; ADC #0x50 has run
C16_SignedOverflowSeen ==
  /\ Ran(<<169, 24, 105>>)
  /\ Operand8(Back(2)) = 80
  /\ Operand8(Back(0)) = 80
  /\ nes.a = 160
  /\ nes.overflow

\* what adc returns and leaves in the flags for operand op in this state
AdcOf(op) == adc(Machine(nes, trace, joy), op)

\* C17: SBC #op leaves in A what adc(op XOR 0xFF) returns, and the C, V, N
\* and Z that adc(op XOR 0xFF) leaves
C17_SbcIsAdcOfComplement ==
  [][Executed(233) =>
       /\ nes'.a = AdcOf(BitXor(Imm8, 255)).ret
       /\ nes'.carry = AdcOf(BitXor(Imm8, 255)).carry
       /\ nes'.overflow = AdcOf(BitXor(Imm8, 255)).overflow
       /\ nes'.negative = AdcOf(BitXor(Imm8, 255)).negative
       /\ nes'.zero = AdcOf(BitXor(Imm8, 255)).zero]_vars

\* LDA #0; CLC; SBC #1 has run and borrowed
C17_BorrowSeen ==
  /\ Ran(<<169, 24, 233>>)
  /\ Operand8(Back(2)) = 0
  /\ Operand8(Back(0)) = 1
  /\ nes.a = 254
  /\ ~nes.carry

\* the run ends with LDA #a; SEC; ADC #op; SBC #op, both with the same op
AdcThenSbc ==
  /\ Ran(<<169, 56, 105, 233>>)
  /\ Operand8(Back(1)) = Operand8(Back(0))

\* C18 as stated: after SEC, ADC #op and then SBC #op leave A as it was,
\* for every A and op
C18_AdcThenSbcRestoresA == AdcThenSbc => nes.a = Operand8(Back(3))

\* C18: after SEC, ADC #op and then SBC #op leave A as it was when the ADC
\* produces no carry (A + op + 1 <= 0xFF), and leave (A + 1) mod 256 when
\* it does
C18_AdcThenSbcRestoresAUnlessCarry ==
  AdcThenSbc =>
    IF Operand8(Back(3)) + Operand8(Back(1)) + 1 <= 255
    THEN nes.a = Operand8(Back(3))
    ELSE nes.a = U8(Operand8(Back(3)) + 1)

\* 0x50 + 0x50 + 1 produced no carry and the SBC restored A
C18_RestoredSeen ==
  /\ AdcThenSbc
  /\ Operand8(Back(3)) = 80
  /\ Operand8(Back(1)) = 80
  /\ nes.a = 80

\* the run ends with LDA #x; SEC or CLC; then ROL A; ROR A or ROR A; ROL A
RotatedBack ==
  /\ Completed
  /\ Len(Steps(trace)) >= 4
  /\ Back(3).v = 169
  /\ Back(2).v \in {24, 56}
  /\ <<Back(1).v, Back(0).v>> \in {<<42, 106>>, <<106, 42>>}

\* C19: ROL A followed by ROR A, and ROR A followed by ROL A, leave A and
\* the carry as they were before the pair
C19_RotatesAreInverse ==
  RotatedBack => (nes.a = Operand8(Back(3)) /\ nes.carry = (Back(2).v = 56))

\* 0x81 was rotated left through a clear carry and back
C19_RolThenRorSeen ==
  /\ RotatedBack
  /\ Back(1).v = 42
  /\ Back(2).v = 24
  /\ Operand8(Back(3)) = 129
  /\ nes.a = 129
  /\ ~nes.carry

(***************************************************************************)
(* Branches.                                                               *)
(***************************************************************************)
\* the condition of each branch opcode, from the instruction set reference:
\* BPL, BMI, BVC, BVS, BCC, BCS, BNE, BEQ
BranchTaken(opc) ==
  CASE opc = 16 -> ~nes.negative
    [] opc = 48 -> nes.negative
    [] opc = 80 -> ~nes.overflow
    [] opc = 112 -> nes.overflow
    [] opc = 144 -> ~nes.carry
    [] opc = 176 -> nes.carry
    [] opc = 208 -> ~nes.zero
    [] opc = 240 -> nes.zero

\* the address a taken branch at nes.pc goes to
BranchTarget == (nes.pc + 2 + (IF Imm8 >= 128 THEN Imm8 - 256 ELSE Imm8) + 65536) % 65536

\* C20: a branch at P whose condition is false leaves PC = P + 2 and costs
\* 2 cycles; one whose condition is true leaves PC = P + 2 + signed(imm8)
\* and costs 3 cycles, or 4 when the target is in another page than P + 2;
\* BNE +0x10 at 0x80F5 with Z = 0 leaves PC = 0x8107 and costs 4 cycles
C20_BranchTargetAndCost ==
  [][(StepReturned /\ LastOp(trace') \in BranchOps) =>
       /\ IF BranchTaken(LastOp(trace'))
          THEN /\ nes'.pc = BranchTarget
               /\ nes'.cycles = nes.cycles
                                + (IF Hi(BranchTarget) # Hi(U16(nes.pc + 2)) THEN 4 ELSE 3)
          ELSE /\ nes'.pc = U16(nes.pc + 2)
               /\ nes'.cycles = nes.cycles + 2
       /\ (nes.pc = 33013 /\ LastOp(trace') = 208 /\ Imm8 = 16 /\ ~nes.zero)
            => (nes'.pc = 33031 /\ nes'.cycles = nes.cycles + 4)]_vars

\* BNE +0x10 at 0x80F5 was taken across the page boundary
C20_PageCrossSeen ==
  /\ Completed
  /\ LastOp(trace) = 208
  /\ LastPc(trace) = 33013
  /\ Operand8(Back(0)) = 16
  /\ nes.pc = 33031
  /\ nes.cycles = 4

(***************************************************************************)
(* Programs for the jumps, the interrupts, the PPU ports, the indexed      *)
(* addressing modes, the decimal flag and the unmapped I/O addresses.      *)
(* They are run without host events, like the programs above.              *)
(***************************************************************************)
JMP_ind(a) == <<108, Lo(a), Hi(a)>>

\* the cell with the high byte of p and the low byte (p + 1) mod 256
SamePageNext(p) == Hi(p) * 256 + ((p + 1) % 256)

\* the pointers JMP (indirect) is run on: at the end of a page, inside a
\* page, and at the end of the zero page
JmpPointers == {767, 640, 255}

\* pointer ptr holds the low byte lo, the cell after it the byte other, and
\* the cell JMP reads the high byte from the byte hi
JmpRom(ptr, lo, hi, other) ==
  Rom(LDA_imm(lo) \o STA_abs(ptr)
      \o LDA_imm(other) \o STA_abs(ptr + 1)
      \o LDA_imm(hi) \o STA_abs(SamePageNext(ptr))
      \o JMP_ind(ptr),
      Empty)

\* JSR at address p with the stack pointer set to s, and an RTS at its
\* target
JsrRomAt(p, s) ==
  RomAt(p - 3, LDX_imm(s) \o TXS \o JSR_abs(p + 4) \o JAM \o RTS \o JAM)

\* JSR $C005 at the reset address, with the stack pointer of the reset
JsrRom == Rom(JSR_abs(49157) \o JAM \o NOP \o RTS \o JAM, Empty)

\* where JSR is placed: inside a page, and with its last byte on the next
\* page
JsrAt == {33024, 33022, 49408}

CLI == <<88>>
SED == <<248>>
CLD == <<216>>

\* what sets the flags before a BRK
BrkPrefixes ==
  FlagPrefixes \cup {CLI, SED, SED \o SEC, CLI \o LDA_imm(128), CLI \o SED \o LDA_imm(0)}

\* BRK with the stack pointer set to s, the BRK vector pointing at the RTI
\* of the handler
BrkRom(s, prefix) ==
  Rom(LDX_imm(s) \o TXS \o prefix \o BRK \o NOP \o JAM,
      Place(16382, <<Lo(49152 + HandlerOff + 3), Hi(49152 + HandlerOff + 3)>>))

\* the accesses that move the w latch: a write of v to PPUSCROLL or to
\* PPUADDR, through the register or through its last mirror, and a read of
\* PPUSTATUS
LatchOps == {"scroll", "addr", "addr_mirror", "status"}

LatchOp(o, v) ==
  CASE o = "scroll" -> LDA_imm(v) \o STA_abs(PPUSCROLL)
    [] o = "addr" -> LDA_imm(v) \o STA_abs(PPUADDR)
    [] o = "addr_mirror" -> LDA_imm(v) \o STA_abs(PPUADDR + 8184)
    [] o = "status" -> LDA_abs(PPUSTATUS)

LatchRom(o1, o2, o3, o4) ==
  Rom(LatchOp(o1, 33) \o LatchOp(o2, 66) \o LatchOp(o3, 132) \o LatchOp(o4, 255) \o JAM,
      Empty)

\* `ppuaddr = a` through PPUADDR, the latch being clear
SetPpuAddr(a) == LDA_imm(Hi(a)) \o STA_abs(PPUADDR) \o LDA_imm(Lo(a)) \o STA_abs(PPUADDR)

\* PPUCTRL = ctrl; ppuaddr = aw; write v to PPUDATA; ppuaddr = ar; read
\* PPUDATA twice
PortRom(ctrl, aw, ar, v) ==
  Rom(LDA_abs(PPUSTATUS) \o LDA_imm(ctrl) \o STA_abs(PPUCTRL)
      \o SetPpuAddr(aw) \o LDA_imm(v) \o STA_abs(PPUDATA)
      \o SetPpuAddr(ar) \o LDA_abs(PPUDATA) \o LDA_abs(PPUDATA)
      \o JAM,
      Empty)

\* the PPU addresses the port is run on: pattern tables, the first
\* nametable, the region above the nametables, the palette, the mirrors of
\* the whole space, and the last addresses of the 16 bits of ppuaddr
PortAddrs == {1, 8191, 8192, 9215, 12288, 16127, 16128, 16383, 16384, 32767, 65503, 65504, 65535}

\* the offsets into a nametable the mirrors are run on
NametableOffsets == {0, 5, 1023}

LDY_imm(v) == <<160, v>>

\* the read-type instructions of the indexed modes (ADC, AND, CMP, EOR,
\* LDA, LDX, LDY, ORA, SBC)
AbsXReads == {125, 61, 221, 93, 189, 188, 29, 253}

AbsYReads == {121, 57, 217, 89, 185, 190, 25, 249}

IndYReads == {113, 49, 209, 81, 177, 17, 241}

\* STA, and ASL, LSR, ROL, ROR, INC and DEC
AbsXStores == {157}

AbsYStores == {153}

IndYStores == {145}

AbsXModifies == {30, 94, 62, 126, 254, 222}

AbsXOps == AbsXReads \cup AbsXStores \cup AbsXModifies

AbsYOps == AbsYReads \cup AbsYStores

IndYOps == IndYReads \cup IndYStores

\* base address and index: inside a page, up to its last byte, over its end
\* by one byte and by the largest index, over the end of the address space,
\* onto OAMDMA with and without a page crossing, and onto PPUCTRL
IndexPairs ==
  {<<752, 0>>, <<752, 15>>, <<752, 16>>, <<752, 255>>, <<512, 255>>, <<65520, 16>>,
   <<16384, 20>>, <<16368, 36>>, <<8176, 16>>}

\* the indexed instruction opc on base with both index registers idx and
\* A = 0x80
AbsIndexRom(opc, base, idx) ==
  Rom(LDX_imm(idx) \o LDY_imm(idx) \o LDA_imm(128) \o <<opc, Lo(base), Hi(base)>> \o JAM,
      Empty)

\* the same through the zero-page pointer at 0x00FF, whose high byte is
\* at 0x0000
IndIndexRom(opc, base, idx) ==
  Rom(LDA_imm(Lo(base)) \o STA_abs(255) \o LDA_imm(Hi(base)) \o STA_abs(0)
      \o LDY_imm(idx) \o LDA_imm(128) \o <<opc, 255>> \o JAM,
      Empty)

\* the bytes ADC and SBC are run on with the Decimal flag set and clear:
\* digits that a decimal adjustment would change, and both ends of the
\* unsigned and of the signed range
DecBytes == {0, 1, 9, 21, 80, 127, 128, 153, 255}

\* SED or CLD; LDA #a; SEC or CLC; ADC #op or SBC #op
DecRom(d, a, c, op, is_adc) ==
  Rom((IF d THEN SED ELSE CLD) \o LDA_imm(a) \o SetCarry(c)
      \o (IF is_adc THEN ADC_imm(op) ELSE SBC_imm(op)) \o JAM,
      Empty)

\* LDA #v; a store to RAM and to OAM; then a store to 0x4018 + i and a
\* load from it
TestModeRom(i, v) ==
  Rom(LDA_imm(v) \o STA_abs(512) \o STA_abs(OAMDATA)
      \o STA_abs(16408 + i) \o LDA_abs(16408 + i) \o JAM,
      Empty)

BusRoms ==
  {JmpRom(ptr, lo, hi, 85) : ptr \in JmpPointers, lo \in {0, 64}, hi \in {3, 192}}
  \cup {JsrRomAt(p, s) : p \in JsrAt, s \in {0, 1, 2, 128, 253, 255}}
  \cup {JsrRom}
  \cup {BrkRom(s, prefix) : s \in {1, 253}, prefix \in BrkPrefixes}
  \cup {LatchRom(o1, o2, o3, o4) : o1 \in LatchOps, o2 \in LatchOps,
                                   o3 \in LatchOps, o4 \in LatchOps}
  \cup {PortRom(ctrl, a, a, 165) : ctrl \in {0, 4}, a \in PortAddrs}
  \cup {PortRom(0, 8192 + 1024 * i + k, 8192 + 1024 * j + k, 165) :
          i \in 0..3, j \in 0..3, k \in NametableOffsets}
  \cup {AbsIndexRom(opc, p[1], p[2]) : opc \in AbsXOps \cup AbsYOps, p \in IndexPairs}
  \cup {IndIndexRom(opc, p[1], p[2]) : opc \in IndYOps, p \in IndexPairs}
  \cup {DecRom(d, a, c, op, f) :
          d \in BOOLEAN, a \in DecBytes, c \in BOOLEAN, op \in DecBytes, f \in BOOLEAN}
  \cup {TestModeRom(i, v) : i \in 0..7, v \in {1, 165, 255}}

InitBus ==
  /\ \E rom \in BusRoms : nes = new(rom)
  /\ paused = FALSE
  /\ status = Running
  /\ trace = << >>
  /\ joy = JoyInit
  /\ overflow_checks \in BOOLEAN
  /\ events = 0

SpecBus == InitBus /\ [][NoEvent]_vars

(***************************************************************************)
(* JMP (indirect).                                                         *)
(***************************************************************************)
\* C21: JMP (indirect) with operand imm16 sets the low byte of PC from
\* address imm16 and the high byte from the address with the high byte of
\* imm16 and the low byte (imm16 + 1) mod 256 -- with imm16 = 0x02FF from
\* 0x0200, not from 0x0300 -- and costs 5 cycles
C21_JmpIndirectWrapsInPage ==
  [][Executed(108)
       => /\ nes'.pc = 256 * Mem(nes, SamePageNext(Mem16(nes, U16(nes.pc + 1))))
                       + Mem(nes, Mem16(nes, U16(nes.pc + 1)))
          /\ Mem16(nes, U16(nes.pc + 1)) = 767 => nes'.pc \div 256 = Mem(nes, 512)
          /\ nes'.cycles = nes.cycles + 5]_vars

\* JMP ($02FF) has run with different bytes at 0x0200 and 0x0300
C21_PageEndPointerSeen ==
  /\ Ran(<<141, 108>>)
  /\ Operand16(Back(0)) = 767
  /\ Mem(nes, 512) # Mem(nes, 768)
  /\ nes.pc = 256 * Mem(nes, 512) + Mem(nes, 767)

(***************************************************************************)
(* JSR and RTS.                                                            *)
(***************************************************************************)
\* the stack cell the stack pointer s addresses
StackAt(s) == 256 + ((s + 256) % 256)

\* C22: JSR at address P with stack pointer S stores the high byte of P+2
\* at 0x0100+S and the low byte at 0x0100+((S-1) mod 256), leaves the stack
\* pointer at S-2 and PC at the absolute target; the RTS executed with that
\* stack content restores the stack pointer to S and sets PC = P+3.  From
\* PC = 0xC000 and S = 0xFD: S = 0xFB, 0x1FD = 0xC0, 0x1FC = 0x02, and
\* after the RTS S = 0xFD and PC = 0xC003
C22_JsrThenRts ==
  [][/\ Executed(32)
          => /\ Mem(nes', StackAt(nes.s)) = Hi(U16(nes.pc + 2))
             /\ Mem(nes', StackAt(nes.s - 1)) = Lo(U16(nes.pc + 2))
             /\ nes'.s = U8(nes.s + 254)
             /\ nes'.pc = Mem16(nes, U16(nes.pc + 1))
     /\ Executed(32) /\ nes.pc = 49152 /\ nes.s = 253
          => nes'.s = 251 /\ Mem(nes', 509) = 192 /\ Mem(nes', 508) = 2
     /\ Executed(96) /\ Ran(<<32>>)
          => /\ nes'.s = U8(nes.s + 2)
             /\ nes'.pc = U16(Back(0).a + 3)
     /\ Executed(96) /\ Ran(<<32>>) /\ Back(0).a = 49152 /\ nes.s = 251
          => nes'.s = 253 /\ nes'.pc = 49155]_vars

\* JSR $C005 at 0xC000 and the RTS at 0xC005 have run from S = 0xFD
C22_ReturnedSeen ==
  /\ Ran(<<32, 96>>)
  /\ Back(1).a = 49152
  /\ nes.s = 253
  /\ nes.pc = 49155
  /\ Mem(nes, 509) = 192
  /\ Mem(nes, 508) = 2

\* JSR has run with S = 0, its return address on both ends of page 1
C22_WrappedPushSeen ==
  /\ Ran(<<162, 154, 32>>)
  /\ Operand8(Back(2)) = 0
  /\ nes.s = 254
  /\ Mem(nes, 256) = Hi(Back(0).a + 2)
  /\ Mem(nes, 511) = Lo(Back(0).a + 2)

(***************************************************************************)
(* BRK and RTI.                                                            *)
(***************************************************************************)
\* byte b holds the flags N, V, D, I, Z and C of n
HoldsFlags(b, n) ==
  /\ (Bit(b, 7) # 0) = n.negative
  /\ (Bit(b, 6) # 0) = n.overflow
  /\ (Bit(b, 3) # 0) = n.decimal_mode
  /\ (Bit(b, 2) # 0) = n.interrupt_disable
  /\ (Bit(b, 1) # 0) = n.zero
  /\ (Bit(b, 0) # 0) = n.carry

\* C23: BRK at address P pushes P+2 (high byte, then low byte) and then the
\* status byte with B = 1, sets I, loads PC from the little-endian word at
\* 0xFFFE/0xFFFF and costs 7 cycles; the RTI executed with that stack
\* content restores N, V, D, I, Z and C to the values the BRK pushed (their
\* values before the BRK), restores the stack pointer, sets PC = P+2 and
\* costs 6 cycles
C23_BrkThenRti ==
  [][/\ Executed(0)
          => /\ Mem(nes', StackAt(nes.s)) = Hi(U16(nes.pc + 2))
             /\ Mem(nes', StackAt(nes.s - 1)) = Lo(U16(nes.pc + 2))
             /\ HoldsFlags(Mem(nes', StackAt(nes.s - 2)), nes)
             /\ Bit(Mem(nes', StackAt(nes.s - 2)), 4) # 0
             /\ nes'.s = U8(nes.s + 253)
             /\ nes'.interrupt_disable
             /\ nes'.pc = Mem16(nes, 65534)
             /\ nes'.cycles = nes.cycles + 7
     /\ Executed(64) /\ Ran(<<0>>)
          => /\ HoldsFlags(Mem(nes, StackAt(nes.s + 1)), nes')
             /\ nes'.s = U8(nes.s + 3)
             /\ nes'.pc = U16(Back(0).a + 2)
             /\ nes'.cycles = nes.cycles + 6]_vars

\* CLI; SED; LDA #0; BRK; RTI have run from S = 1: the RTI has cleared the
\* I that the BRK set, and D and Z are set as before the BRK
C23_RtiRestoredSeen ==
  /\ Ran(<<88, 248, 169, 0, 64>>)
  /\ ~nes.interrupt_disable
  /\ nes.decimal_mode
  /\ nes.zero
  /\ nes.s = 1
  /\ nes.pc = U16(Back(1).a + 2)
  /\ Mem(nes, 511) = 58

(***************************************************************************)
(* The w latch of PPUSCROLL and PPUADDR.                                   *)
(***************************************************************************)
\* the instruction about to run is opcode opc on the PPU register reg or on
\* one of its mirrors
OnPpuReg(opc, reg) ==
  /\ Executed(opc)
  /\ Mem16(nes, U16(nes.pc + 1)) \in 8192..16383
  /\ Mem16(nes, U16(nes.pc + 1)) % 8 = reg % 8

\* bus access e is a write to PPUADDR or to one of its mirrors
IsAddrWrite(e) == e.k = "w" /\ e.a \in 8192..16383 /\ e.a % 8 = PPUADDR % 8

\* the bus accesses end with a read of PPUSTATUS and two writes to PPUADDR
StatusThenAddrPair ==
  /\ Completed
  /\ Len(Bus(trace)) >= 3
  /\ Back(0).v = 141
  /\ IsAddrWrite(LastStep(trace)[Len(LastStep(trace))])
  /\ Bus(trace)[Len(Bus(trace)) - 2].k = "r"
  /\ Bus(trace)[Len(Bus(trace)) - 2].a = PPUSTATUS
  /\ IsAddrWrite(Bus(trace)[Len(Bus(trace)) - 1])

AddrPairHigh == Bus(trace)[Len(Bus(trace)) - 1].v

AddrPairLow == Bus(trace)[Len(Bus(trace))].v

\* C24: the w latch is one bit shared by PPUSCROLL and PPUADDR: every write
\* to either register toggles it and a read of PPUSTATUS clears it; a
\* PPUADDR write with w = false replaces only the high byte of ppuaddr and
\* with w = true only the low byte, so after a PPUSTATUS read two PPUADDR
\* writes h then l leave ppuaddr = h*256 + l and w = false; a PPUSCROLL
\* write with w = false stores the X scroll and with w = true the Y scroll
C24_SharedWriteLatch ==
  [][/\ OnPpuReg(141, PPUADDR)
          => /\ nes'.w = ~nes.w
             /\ ~nes.w => nes'.ppuaddr = 256 * nes.a + (nes.ppuaddr % 256)
             /\ nes.w => nes'.ppuaddr = 256 * (nes.ppuaddr \div 256) + nes.a
             /\ nes'.internal_x_scroll = nes.internal_x_scroll
             /\ nes'.internal_y_scroll = nes.internal_y_scroll
     /\ OnPpuReg(141, PPUSCROLL)
          => /\ nes'.w = ~nes.w
             /\ ~nes.w => /\ nes'.internal_x_scroll = nes.a
                          /\ nes'.internal_y_scroll = nes.internal_y_scroll
             /\ nes.w => /\ nes'.internal_y_scroll = nes.a
                         /\ nes'.internal_x_scroll = nes.internal_x_scroll
             /\ nes'.ppuaddr = nes.ppuaddr
     /\ OnPpuReg(173, PPUSTATUS) => ~nes'.w
     /\ StatusThenAddrPair'
          => nes'.ppuaddr = 256 * AddrPairHigh' + AddrPairLow' /\ ~nes'.w]_vars

\* a PPUSTATUS read, then PPUADDR writes of 0x42 and 0x84
C24_AddrPairSeen ==
  /\ StatusThenAddrPair
  /\ AddrPairHigh = 66
  /\ AddrPairLow = 132
  /\ nes.ppuaddr = 17028
  /\ ~nes.w

\* a PPUSCROLL write, then a PPUADDR write that found w set by it and
\* replaced the low byte
C24_ScrollThenAddrSeen ==
  /\ Ran(<<141, 169, 141>>)
  /\ Operand16(Back(2)) = PPUSCROLL
  /\ Operand16(Back(0)) = PPUADDR
  /\ nes.internal_x_scroll = 33
  /\ nes.ppuaddr = 66
  /\ ~nes.w

(***************************************************************************)
(* PPUDATA.                                                                *)
(***************************************************************************)
\* the PPU-memory byte at PPU address a
PpuMem(n, a) == ppu_read(Machine(n, << >>, JoyInit), a)

\* what bit 2 of PPUCTRL makes a PPUDATA access add to ppuaddr
CtrlInc(n) == IF Bit(n.ppu_regs[PPUCTRL % 8], 2) = 0 THEN 1 ELSE 32

\* step() is called on opcode opc, and returns or panics
Attempted(opc) == trace' # trace /\ status.kind = "running" /\ LastOp(trace') = opc

OnPpuData(opc) ==
  /\ Attempted(opc)
  /\ Mem16(nes, U16(nes.pc + 1)) \in 8192..16383
  /\ Mem16(nes, U16(nes.pc + 1)) % 8 = PPUDATA % 8

\* the run ends with: ppuaddr = PortWriteAddr; write PortWritten to PPUDATA;
\* ppuaddr = PortReadAddr; two reads of PPUDATA
PortRan ==
  /\ Ran(<<169, 141, 169, 141, 169, 141, 169, 141, 169, 141, 173, 173>>)
  /\ \A k \in {2, 4, 8, 10} : Operand16(Back(k)) = PPUADDR
  /\ \A k \in {0, 1, 6} : Operand16(Back(k)) = PPUDATA

PortWriteAddr == 256 * Operand8(Back(11)) + Operand8(Back(9))

PortWritten == Operand8(Back(7))

PortReadAddr == 256 * Operand8(Back(5)) + Operand8(Back(3))

WroteThenReadTwice == PortRan /\ PortWriteAddr = PortReadAddr

\* what C25 says of one step
PpuDataPort ==
     /\ OnPpuData(173)
          => /\ status'.kind = "running"
             /\ nes'.a = nes.ppudata
             /\ nes'.ppudata = PpuMem(nes, nes.ppuaddr)
             /\ nes'.ppuaddr = U16(nes.ppuaddr + CtrlInc(nes))
     /\ OnPpuData(141)
          => /\ status'.kind = "running"
             /\ PpuMem(nes', nes.ppuaddr) = nes.a
             /\ nes'.ppuaddr = U16(nes.ppuaddr + CtrlInc(nes))
     /\ WroteThenReadTwice' => nes'.a = PortWritten'

\* C25: a PPUDATA read returns the read buffer as it was before the read,
\* then sets the buffer to the PPU-memory byte at the pre-increment
\* ppuaddr, then adds 1 to ppuaddr when bit 2 of PPUCTRL is 0 and 32 when it
\* is 1; a PPUDATA write stores the byte in PPU memory at the pre-increment
\* ppuaddr and applies the same increment.  Hence after setting
\* ppuaddr = a and writing v, setting ppuaddr = a again and reading PPUDATA
\* twice, the second read returns v
C25_PpuDataPort == [][PpuDataPort]_vars

(***************************************************************************)
(* The nametables.                                                         *)
(***************************************************************************)
\* C26: nametable mirroring in PPU memory: a byte written at a PPU address
\* a in 0x2400..0x2FFF is read back at 0x2000 + ((a - 0x2000) mod 0x400),
\* and a byte written at 0x2000 + k (k < 0x400) is read back at 0x2400 + k,
\* 0x2800 + k and 0x2C00 + k
C26_NametablesMirrorTheFirst ==
  /\ PortRan /\ PortWriteAddr \in 9216..12287
             /\ PortReadAddr = 8192 + ((PortWriteAddr - 8192) % 1024)
       => nes.a = PortWritten
  /\ PortRan /\ PortWriteAddr \in 8192..9215
             /\ PortReadAddr \in {PortWriteAddr + 1024, PortWriteAddr + 2048,
                                  PortWriteAddr + 3072}
       => nes.a = PortWritten

(***************************************************************************)
(* The cycles of the indexed addressing modes.                             *)
(***************************************************************************)
\* the un-indexed base address of the instruction about to run: its
\* operand, or the word its zero-page operand points at
AbsBase == Mem16(nes, U16(nes.pc + 1))

IndBase == 256 * Mem(nes, (Imm8 + 1) % 256) + Mem(nes, Imm8)

\* 1 when adding index idx to base changes the high byte
CrossCost(base, idx) == IF Hi(U16(base + idx)) # Hi(base) THEN 1 ELSE 0

\* step() has run an instruction of ops to its end
ExecutedOf(ops) == StepReturned /\ LastOp(trace') \in ops

Charged == nes'.cycles - nes.cycles

\* C27: for the read-type instructions using Absolute,X, Absolute,Y or
\* (Indirect),Y (ADC, AND, CMP, EOR, LDA, LDX, LDY, ORA, SBC), step()
\* charges the base cost (4, 4 and 5) plus exactly 1 extra cycle if and only
\* if the high byte of the effective address differs from the high byte of
\* the un-indexed base address
C27_ReadsPayPageCrossing ==
  [][/\ ExecutedOf(AbsXReads) => Charged = 4 + CrossCost(AbsBase, nes.x)
     /\ ExecutedOf(AbsYReads) => Charged = 4 + CrossCost(AbsBase, nes.y)
     /\ ExecutedOf(IndYReads) => Charged = 5 + CrossCost(IndBase, nes.y)]_vars

\* LDA ($FF),Y has run with the base 0x02F0 and Y = 0x10, and LDA $02F0,X
\* with X = 0x0F
C27_IndirectCrossSeen ==
  /\ Ran(<<169, 177>>)
  /\ nes.y = 16
  /\ Mem16(nes, 255) % 256 = 240
  /\ Mem(nes, 0) = 2
  /\ nes.cycles = 22

C27_AbsoluteNoCrossSeen ==
  /\ Ran(<<162, 160, 169, 189>>)
  /\ Operand16(Back(0)) = 752
  /\ nes.x = 15
  /\ nes.cycles = 10

\* what the side effect of the store of the step adds: the charge of the
\* OAM DMA when the step wrote 0x4014, and the 7 cycles of the NMI when its
\* write to PPUCTRL raised one
IsDmaWrite(e) == e.k = "w" /\ e.a = OAMDMA

WroteDma(t) == Len(SelectSeq(LastStep(t), IsDmaWrite)) > 0

SideEffectCost ==
  (IF WroteDma(trace') THEN 513 + (nes.cycles % 2) ELSE 0)
  + (IF TookNmi(trace') THEN 7 ELSE 0)

\* C28 as stated: store and read-modify-write instructions charge a fixed
\* cost that does not depend on page crossing: STA Absolute,X and Absolute,Y
\* always cost 5 and STA (Indirect),Y always 6; ASL, LSR, ROL, ROR, INC and
\* DEC with Absolute,X always cost 7, for every operand and index value
C28_StoresCostFixed ==
  [][/\ ExecutedOf(AbsXStores \cup AbsYStores) => Charged = 5
     /\ ExecutedOf(IndYStores) => Charged = 6
     /\ ExecutedOf(AbsXModifies) => Charged = 7]_vars

\* C28: store and read-modify-write instructions charge a fixed cost that
\* does not depend on page crossing: STA Absolute,X and Absolute,Y cost 5,
\* STA (Indirect),Y 6, and ASL, LSR, ROL, ROR, INC and DEC with Absolute,X
\* 7, for every operand and index value; on top of it a store to 0x4014
\* pays the charge of the OAM DMA and a store to PPUCTRL that raises an NMI
\* the 7 cycles of the NMI
C28_StoresCostFixedPlusSideEffect ==
  [][/\ ExecutedOf(AbsXStores \cup AbsYStores) => Charged = 5 + SideEffectCost
     /\ ExecutedOf(IndYStores) => Charged = 6 + SideEffectCost
     /\ ExecutedOf(AbsXModifies) => Charged = 7 + SideEffectCost]_vars

\* STA $02F0,X has run with X = 0x10, over the end of the page, for 5 cycles
C28_StoreCrossSeen ==
  /\ Ran(<<162, 160, 169, 157>>)
  /\ Operand16(Back(0)) = 752
  /\ nes.x = 16
  /\ Mem(nes, 768) = 128
  /\ nes.cycles = 11

\* INC $3FF0,X has run with X = 0x24, onto 0x4014: 7 cycles and the DMA
C28_DmaStoreSeen ==
  /\ Ran(<<162, 160, 169, 254>>)
  /\ Operand16(Back(0)) = 16368
  /\ nes.x = 36
  /\ nes.cycles = 6 + 7 + 513

(***************************************************************************)
(* The Decimal flag.                                                       *)
(***************************************************************************)
\* the state that differs from the current one in the Decimal flag only
FlipD == [nes EXCEPT !.decimal_mode = ~@]

\* the result and the C, V, N and Z flags a machine is left with
AluOutcome(result, m) == <<result, m.carry, m.overflow, m.negative, m.zero>>

\* what adc and sbc make of operand op with the Decimal flag flipped
AdcFlipped(op) == adc(Machine(FlipD, trace, joy), op)

SbcFlipped(op) == sbc(Machine(FlipD, trace, joy), op)

\* C29: the Decimal flag never alters arithmetic: for every A, operand and
\* carry-in, ADC and SBC executed with D = 1 produce the same result and the
\* same C, V, N, Z flags as with D = 0, and leave D itself unchanged
C29_DecimalFlagIgnored ==
  [][/\ Executed(105)
          => /\ AluOutcome(nes'.a, nes') = AluOutcome(AdcFlipped(Imm8).ret, AdcFlipped(Imm8))
             /\ nes'.decimal_mode = nes.decimal_mode
     /\ Executed(233)
          => /\ AluOutcome(nes'.a, nes') = AluOutcome(SbcFlipped(Imm8).ret, SbcFlipped(Imm8))
             /\ nes'.decimal_mode = nes.decimal_mode]_vars

\* SED; LDA #$09; CLC; ADC #$01 has run: A = 0x0A with D still set
C29_DecimalAddSeen ==
  /\ Ran(<<248, 169, 24, 105>>)
  /\ Operand8(Back(2)) = 9
  /\ Operand8(Back(0)) = 1
  /\ nes.decimal_mode
  /\ nes.a = 10
  /\ ~nes.carry

\* SED; LDA #$15; SEC; SBC #$09 has run: A = 0x0C with D still set
C29_DecimalSubtractSeen ==
  /\ Ran(<<248, 169, 56, 233>>)
  /\ Operand8(Back(2)) = 21
  /\ Operand8(Back(0)) = 9
  /\ nes.decimal_mode
  /\ nes.a = 12
  /\ nes.carry

(***************************************************************************)
(* 0x4018..0x401F.                                                         *)
(***************************************************************************)
\* the instruction about to run is opcode opc on an address of
\* 0x4018..0x401F
OnTestMode(opc) == Executed(opc) /\ Mem16(nes, U16(nes.pc + 1)) \in 16408..16415

\* C30: reads of any address in 0x4018..0x401F return 0 and writes to those
\* addresses are ignored: such a write leaves every piece of system state
\* (RAM, registers, OAM, latches, cycle counter) unchanged -- the STA that
\* makes it changes PC and charges its 4 cycles, and nothing else
C30_TestModeRegion ==
  [][/\ OnTestMode(173)
          => nes' = [nes EXCEPT !.a = 0, !.zero = TRUE, !.negative = FALSE,
                                !.pc = U16(@ + 3), !.cycles = @ + 4]
     /\ OnTestMode(141)
          => nes' = [nes EXCEPT !.pc = U16(@ + 3), !.cycles = @ + 4]
     /\ \A a \in 16408..16415 : Mem(nes, a) = 0]_vars

\* LDA #$A5; STA $0200; STA $2004; STA $401F; LDA $401F has run
C30_TestModeLoadSeen ==
  /\ Ran(<<169, 141, 141, 141, 173>>)
  /\ Operand16(Back(1)) = 16415
  /\ Operand16(Back(0)) = 16415
  /\ Operand8(Back(4)) = 165
  /\ nes.a = 0
  /\ Mem(nes, 512) = 165
  /\ nes.oam[0] = 165

(***************************************************************************)
(* Programs for OAMDATA, the status pulls, the zero-page addressing modes, *)
(* the length of the instructions and the reads of the registers.  They    *)
(* are run without host events, like the programs above.                   *)
(***************************************************************************)
\* OAMADDR = addr; OAMDATA = v, through 0x2004 + 8 * mirror; OAMADDR = addr
\* again; two loads of OAMDATA
OamRom(addr, v, mirror) ==
  Rom(LDA_imm(addr) \o STA_abs(OAMADDR) \o LDA_imm(v) \o STA_abs(OAMDATA + 8 * mirror)
      \o LDA_imm(v + 1) \o STA_abs(OAMDATA)
      \o LDA_imm(addr) \o STA_abs(OAMADDR)
      \o LDA_abs(OAMDATA + 8 * mirror) \o LDA_abs(OAMDATA) \o JAM,
      Empty)

PLP == <<40>>

\* the status bytes the pulls are run on: each pattern of the six flag
\* bits with every value of bits 4 and 5
StatusBytes == {f + 16 * i : f \in {0, 207, 129, 66, 12, 74, 133}, i \in 0..3}

\* LDA #b; PHA; PLP
PlpRom(b) == Rom(LDA_imm(b) \o PHA \o PLP \o JAM, Empty)

\* the address of the handler pushed, then b; RTI
RtiRom(b) ==
  Rom(LDA_imm(Hi(49152 + HandlerOff)) \o PHA \o LDA_imm(Lo(49152 + HandlerOff)) \o PHA
      \o LDA_imm(b) \o PHA \o RTI \o JAM,
      Empty)

\* LDA #v; STA addr
Poke(addr, v) == LDA_imm(v) \o STA_abs(addr)

\* LDA, LDY, STA, STY and INC with Zero page,X; LDX and STX with Zero
\* page,Y; LDA and STA with (Indirect,X)
ZpXOps == {181, 180, 149, 148, 246}

ZpYOps == {182, 150}

IndXOps == {161, 129}

\* operand and index: inside page 0, up to its last byte, over its end by
\* one byte, and the sums 0x100 and 0x1FE
ZpPairs == {<<16, 4>>, <<128, 127>>, <<255, 0>>, <<255, 1>>, <<128, 128>>, <<255, 255>>, <<254, 1>>}

\* 0x11 at the address that wraps in page 0 and 0x22 at the address that
\* does not; then the instruction, with both index registers idx and
\* A = 0x99
ZpIndexRom(opc, imm8, idx) ==
  Rom(Poke(imm8 + idx, 34) \o Poke((imm8 + idx) % 256, 17)
      \o LDX_imm(idx) \o LDY_imm(idx) \o LDA_imm(153) \o <<opc, imm8>> \o JAM,
      Empty)

\* 0x11 at 0x0340 and 0x22 at 0x0250; the pointer 0x0250 in the cells that
\* do not wrap and the pointer 0x0340 in the cells that wrap in page 0
IndXRom(opc, imm8, idx) ==
  Rom(Poke(832, 17) \o Poke(592, 34)
      \o Poke(imm8 + idx, 80) \o Poke(imm8 + idx + 1, 2)
      \o Poke((imm8 + idx) % 256, 64) \o Poke((imm8 + idx + 1) % 256, 3)
      \o LDX_imm(idx) \o LDA_imm(153) \o <<opc, imm8>> \o JAM,
      Empty)

\* operand, base address and index of the (Indirect),Y programs: the
\* pointer at the end of page 0, a sum that crosses a page, and a sum that
\* wraps at 16 bits
IndYCases == {<<255, 768, 16>>, <<128, 1008, 32>>, <<255, 65520, 32>>, <<254, 768, 255>>}

\* 0x11 at base + idx; the pointer base in the cells that wrap in page 0
\* and another pointer in the cell that does not
IndYRom(opc, imm8, base, idx) ==
  Rom(Poke(U16(base + idx), 17) \o Poke(imm8 + 1, 2)
      \o Poke(imm8, Lo(base)) \o Poke((imm8 + 1) % 256, Hi(base))
      \o LDY_imm(idx) \o LDA_imm(153) \o <<opc, imm8>> \o JAM,
      Empty)

\* the documented opcodes that fall through to the next instruction: every one
\* but the branches, JMP, JSR, RTS, RTI and BRK
SequentialOps == DocumentedOpcodes \ (BranchOps \cup {76, 108, 32, 96, 64, 0})

\* one instruction at the start of PRG, its operand bytes and the two bytes
\* after it all 0x02
LenRom(b) == Rom(<<b, 2, 2, 2, 2>>, Empty)

\* the places at the top of the address space an instruction is started from
EdgeAt == {65534, 65535}

\* an image whose reset vector is `at` and whose byte there is the opcode, so
\* that the instruction's bytes run over 0xFFFF into RAM
EdgeRom(b, at) ==
  [prg_rom_size |-> 1, chr_rom_size |-> 1,
   prg |-> Place(at - 49152, <<b>>) @@ Place(16380, <<Lo(at), Hi(at)>>) @@ Place(16383, <<3>>),
   chr |-> Chr]

\* LDA #$42
LdaRom == Rom(LDA_imm(66) \o JAM, Empty)

\* the documented opcodes by the addressing mode of their column of the
\* opcode matrix (LDX absolute,Y, 0xBE, sits in an absolute,X column)
OddRow(opc) == (opc \div 16) % 2 = 1

AbsOps == {o \in SequentialOps : o % 16 \in {12, 13, 14} /\ ~OddRow(o)}

AbsXModeOps == {o \in SequentialOps : o % 16 \in {12, 13, 14} /\ OddRow(o) /\ o # 190}

AbsYModeOps == {o \in SequentialOps : o % 16 = 9 /\ OddRow(o)} \cup {190}

IndXModeOps == {o \in SequentialOps : o % 16 = 1 /\ ~OddRow(o)}

IndYModeOps == {o \in SequentialOps : o % 16 = 1 /\ OddRow(o)}

MemoryOps == AbsOps \cup AbsXModeOps \cup AbsYModeOps \cup IndXModeOps \cup IndYModeOps

\* the instruction opc made to work on address reg through its addressing
\* mode: an index of 1 or 4, a zero-page pointer at 0x10
OnAddress(opc, reg) ==
  IF opc \in AbsOps THEN <<opc, Lo(reg), Hi(reg)>>
  ELSE IF opc \in AbsXModeOps THEN LDX_imm(1) \o <<opc, Lo(reg - 1), Hi(reg - 1)>>
  ELSE IF opc \in AbsYModeOps THEN LDY_imm(1) \o <<opc, Lo(reg - 1), Hi(reg - 1)>>
  ELSE IF opc \in IndXModeOps
  THEN Poke(16, Lo(reg)) \o Poke(17, Hi(reg)) \o LDX_imm(4) \o <<opc, 12>>
  ELSE Poke(16, Lo(reg - 1)) \o Poke(17, Hi(reg - 1)) \o LDY_imm(1) \o <<opc, 16>>

\* PPUSTATUS, PPUDATA, its last mirror, the controller port
ProbedRegs == {PPUSTATUS, PPUDATA, 16383, JOYPAD}

\* PPUCTRL = ctrl, then opc on reg
RegRom(ctrl, opc, reg) == Rom(Poke(PPUCTRL, ctrl) \o OnAddress(opc, reg) \o JAM, Empty)

\* JMP through a pointer kept in the registers
JmpRegRom(ptr) == Rom(JMP_ind(ptr) \o JAM, Empty)

JMP_abs(a) == <<76, Lo(a), Hi(a)>>

\* the instruction b0 b1 b2 run from address `at` of the last RAM mirror, its
\* bytes past 0x1FFF being those of PPUCTRL and PPUMASK
RamEdgeRom(at, b0, b1, b2) ==
  Rom(Poke(at, b0) \o Poke(at + 1, b1) \o Poke(at + 2, b2) \o JMP_abs(at) \o JAM, Empty)

\* LDA $2007, LDA $4016, LDA $2002, NOP, LDA #7 and STA $2007 at 0x1FFF and 0x1FFE
RamEdgeCases ==
  {<<173, 7, 32>>, <<173, 22, 64>>, <<173, 2, 32>>, <<234, 7, 32>>, <<169, 7, 32>>, <<141, 7, 32>>}

\* one read of the controller, w = TRUE and ppuaddr = 0x2100, then opcode b
\* with operand bytes 0x02
FrameRom(b) ==
  Rom(LDA_abs(JOYPAD) \o LDA_abs(PPUSTATUS) \o LDA_imm(33) \o STA_abs(PPUADDR)
      \o <<b, 2, 2, 2, 2>>,
      Empty)

ModeRoms ==
  {OamRom(addr, v, mirror) : addr \in {0, 1, 127, 254, 255}, v \in {1, 165}, mirror \in {0, 1, 1023}}
  \cup {RegRom(0, opc, reg) : opc \in MemoryOps, reg \in ProbedRegs}
  \cup {RegRom(4, opc, reg) : opc \in {173, 189, 185, 161, 177}, reg \in ProbedRegs}
  \cup {JmpRegRom(ptr) : ptr \in {8193, 8199, 12287, 16406}}
  \cup {RamEdgeRom(at, c[1], c[2], c[3]) : at \in {8190, 8191}, c \in RamEdgeCases}
  \cup {FrameRom(b) : b \in DocumentedOpcodes}
  \cup {LenRom(b) : b \in SequentialOps}
  \cup {EdgeRom(b, at) : b \in SequentialOps, at \in EdgeAt}
  \cup {LdaRom}
  \cup {PlpRom(b) : b \in StatusBytes}
  \cup {RtiRom(b) : b \in StatusBytes}
  \cup {ZpIndexRom(opc, p[1], p[2]) : opc \in ZpXOps \cup ZpYOps, p \in ZpPairs}
  \cup {IndXRom(opc, p[1], p[2]) : opc \in IndXOps, p \in ZpPairs}
  \cup {IndYRom(opc, t[1], t[2], t[3]) : opc \in {177, 145}, t \in IndYCases}

InitMode ==
  /\ \E rom \in ModeRoms : nes = new(rom)
  /\ paused = FALSE
  /\ status = Running
  /\ trace = << >>
  /\ joy = JoyInit
  /\ overflow_checks \in BOOLEAN
  /\ events = 0

SpecMode == InitMode /\ [][NoEvent]_vars

(***************************************************************************)
(* OAMDATA.                                                                *)
(***************************************************************************)
\* the OAMADDR register
OamAddr(n) == n.ppu_regs[OAMADDR % 8]

\* C31: a write to OAMDATA (0x2004 or a mirror) stores the byte at
\* OAM[OAMADDR] and then increments the OAMADDR register by 1 with wrap from
\* 0xFF to 0x00; a read of OAMDATA returns OAM[OAMADDR] and leaves OAMADDR
\* unchanged
C31_OamDataPort ==
  [][/\ OnPpuReg(141, OAMDATA)
          => /\ nes'.oam = [nes.oam EXCEPT ![OamAddr(nes)] = nes.a]
             /\ OamAddr(nes') = (OamAddr(nes) + 1) % 256
     /\ OnPpuReg(173, OAMDATA)
          => /\ nes'.a = nes.oam[OamAddr(nes)]
             /\ OamAddr(nes') = OamAddr(nes)
             /\ nes'.oam = nes.oam]_vars

\* OAMADDR = 0xFF; a write of 0xA5 through the last mirror of OAMDATA; a
\* second write, which the wrap put at OAM[0]; then, with OAMADDR = 0xFF
\* again, two loads of 0xA5
C31_WrappedWriteSeen ==
  /\ Ran(<<141, 169, 141, 169, 141, 173, 173>>)
  /\ Operand16(Back(6)) = 16380
  /\ Operand16(Back(0)) = OAMDATA
  /\ OamAddr(nes) = 255
  /\ nes.oam[255] = 165
  /\ nes.oam[0] = 166
  /\ nes.a = 165

(***************************************************************************)
(* PLP and RTI.                                                            *)
(***************************************************************************)
\* the byte the next pop takes
PoppedByte == Mem(nes, StackAt(nes.s + 1))

\* the current state with the bits of mask flipped in that byte
WithPoppedFlipped(mask) ==
  [nes EXCEPT !.ram = Put(@, StackAt(nes.s + 1), BitXor(PoppedByte, mask))]

FlagsOf(m) ==
  <<m.negative, m.overflow, m.decimal_mode, m.interrupt_disable, m.zero, m.carry>>

\* the flags pop_flags leaves from that state
PulledFrom(n) == FlagsOf(pop_flags(Machine(n, trace, joy)))

C32_RtiAllSetSeen ==
  /\ Ran(<<169, 72, 64>>)
  /\ Operand8(Back(2)) = 255
  /\ FlagsOf(nes) = <<TRUE, TRUE, TRUE, TRUE, TRUE, TRUE>>
  /\ nes.pc = 49152 + HandlerOff

(***************************************************************************)
(* The zero-page addressing modes.                                         *)
(***************************************************************************)
\* the addresses the instruction about to run works on
ZpX == (Imm8 + nes.x) % 256

ZpY == (Imm8 + nes.y) % 256

IndXTarget == 256 * Mem(nes, (Imm8 + nes.x + 1) % 256) + Mem(nes, (Imm8 + nes.x) % 256)

IndYTarget == U16(IndBase + nes.y)

\* the RAM after a store of v at address a of 0x0000..0x1FFF, and nothing
\* else
RamWith(a, v) == Put(nes.ram, a % 2048, v)

\* C33: zero-page address arithmetic wraps at 8 bits: Zero page,X and Zero
\* page,Y address (imm8 + index) mod 256; (Indirect,X) reads its pointer
\* from (imm8+X) mod 256 and (imm8+X+1) mod 256; (Indirect),Y reads its
\* pointer from imm8 and (imm8+1) mod 256 and then adds Y with 16-bit wrap.
\* No operand access of these modes ever leaves page 0 for the pointer
\* fetch
C33_ZeroPageWraps ==
  [][/\ Executed(181) => nes'.a = Mem(nes, ZpX)
     /\ Executed(180) => nes'.y = Mem(nes, ZpX)
     /\ Executed(182) => nes'.x = Mem(nes, ZpY)
     /\ Executed(149) => nes'.ram = RamWith(ZpX, nes.a)
     /\ Executed(148) => nes'.ram = RamWith(ZpX, nes.y)
     /\ Executed(150) => nes'.ram = RamWith(ZpY, nes.x)
     /\ Executed(246) => nes'.ram = RamWith(ZpX, (Mem(nes, ZpX) + 1) % 256)
     /\ Executed(161) => nes'.a = Mem(nes, IndXTarget)
     /\ Executed(129) /\ IndXTarget < 8192 => nes'.ram = RamWith(IndXTarget, nes.a)
     /\ Executed(177) => nes'.a = Mem(nes, IndYTarget)
     /\ Executed(145) /\ IndYTarget < 8192 => nes'.ram = RamWith(IndYTarget, nes.a)]_vars

\* LDA ($FF,X) has run with X = 1: the pointer 0x0340 came from 0x0000 and
\* 0x0001, not from 0x0100 and 0x0101
C33_IndirectXWrapSeen ==
  /\ Ran(<<162, 169, 161>>)
  /\ Operand8(Back(0)) = 255
  /\ nes.x = 1
  /\ Mem16(nes, 0) = 832
  /\ Mem16(nes, 256) = 592
  /\ nes.a = 17

\* STA $FF,X has run with X = 0xFF: the byte is at 0x00FE, and 0x01FE keeps
\* its own
C33_ZeroPageStoreSeen ==
  /\ Ran(<<162, 160, 169, 149>>)
  /\ Operand8(Back(0)) = 255
  /\ nes.x = 255
  /\ Mem(nes, 254) = 153
  /\ Mem(nes, 510) = 34

\* LDA ($FF),Y has run with the pointer 0xFFF0 at 0x00FF and 0x0000 and
\* Y = 0x20: the byte came from 0x0010
C33_IndirectYWrapSeen ==
  /\ Ran(<<160, 169, 177>>)
  /\ Operand8(Back(0)) = 255
  /\ nes.y = 32
  /\ Mem(nes, 255) = 240
  /\ Mem(nes, 0) = 255
  /\ Mem(nes, 16) = 17
  /\ nes.a = 17

(***************************************************************************)
(* Instruction lengths.                                                    *)
(***************************************************************************)
\* the bytes an instruction occupies, read off the 6502 opcode matrix: columns
\* 8 and A are implied and accumulator; columns C, D, E are absolute and
\* absolute indexed, as are the odd rows of column 9 (absolute,Y); every other
\* documented column is immediate, zero page, zero page indexed, (Indirect,X)
\* or (Indirect),Y
ModeBytes(opc) ==
  IF opc % 16 \in {8, 10} THEN 1
  ELSE IF opc % 16 \in {12, 13, 14} \/ opc % 32 = 25 THEN 3
  ELSE 2

\* C34: for every documented opcode that is not a branch, JMP, JSR, RTS, RTI
\* or BRK, and whose execution takes no NMI, step() advances PC by the number
\* of bytes the addressing mode consumes, with 16-bit wrap: 1 for implied and
\* accumulator, 2 for immediate, zero page, zero page indexed, (Indirect,X)
\* and (Indirect),Y, 3 for absolute and absolute indexed (LDA #0x42 gives
\* A = 0x42, PC + 2, 2 cycles)
C34_PcAdvancesByLength ==
  [][/\ ExecutedOf(SequentialOps) /\ ~TookNmi(trace')
        => nes'.pc = U16(nes.pc + ModeBytes(LastOp(trace')))
     /\ Executed(169) /\ Imm8 = 66
        => nes'.a = 66 /\ nes'.pc = U16(nes.pc + 2) /\ Charged = 2]_vars

\* a three-byte instruction started at 0xFFFF has left PC at 0x0002
C34_WrappedAdvanceSeen ==
  /\ Completed
  /\ LastPc(trace) = 65535
  /\ ModeBytes(LastOp(trace)) = 3
  /\ LastOp(trace) \in SequentialOps
  /\ nes.pc = 2

\* LDA #$42 has run from the reset address
C34_LdaExampleSeen ==
  /\ Ran(<<169>>)
  /\ nes.a = 66
  /\ nes.pc = 49154
  /\ nes.cycles = 2

\* a one-byte instruction has run from the start of PRG
C34_OneByteSeen ==
  /\ Completed
  /\ LastPc(trace) = 49152
  /\ ModeBytes(LastOp(trace)) = 1
  /\ nes.pc = 49153

(***************************************************************************)
(* The controller latch under key events.                                  *)
(***************************************************************************)
\* a write of v to 0x4016, and a read of it
Strobe(v) == LDA_imm(v) \o STA_abs(JOYPAD)

Poll == LDA_abs(JOYPAD)

\* LDX $4016
LDX_joypad == <<174, Lo(JOYPAD), Hi(JOYPAD)>>

\* three reads, a write of v, two reads, a write of w and two reads
StrobeRom(v, w) ==
  Rom(Poll \o Poll \o Poll \o Strobe(v) \o Poll \o Poll \o Strobe(w) \o Poll \o Poll \o JAM,
      Empty)

\* seven reads, which leave the index at 7, a strobe and two reads
LateStrobeRom ==
  Rom(Poll \o Poll \o Poll \o Poll \o Poll \o Poll \o Poll
      \o Strobe(1) \o Poll \o LDX_joypad \o JAM,
      Empty)

LatchRoms ==
  {StrobeRom(v, w) : v \in {1, 3, 255}, w \in {0, 1, 2}}
  \cup {LateStrobeRom, JoyRom}

InitLatch ==
  /\ \E rom \in LatchRoms : nes = new(rom)
  /\ paused = FALSE
  /\ status = Running
  /\ trace = << >>
  /\ joy = JoyInit
  /\ overflow_checks \in BOOLEAN
  /\ events = 0

SpecLatch == InitLatch /\ [][Next]_vars

IsJoyRead(e) == e.k = "r" /\ e.a = JOYPAD

\* the reads of 0x4016 made by the last instruction
JoyReads(t) == SelectSeq(LastStep(t), IsJoyRead)

LatchInRange ==
  /\ nes.current_button \in 0..7
  /\ nes.strobe_mode => nes.current_button = 0

\* a step() that began in strobe mode and read 0x4016 got buttons[0], as the
\* key event polled before it left it, and did not move the index
StrobedRead ==
  (StepReturned /\ nes.strobe_mode /\ JoyReads(trace') # << >>)
    => /\ \A i \in 1..Len(JoyReads(trace')) : JoyReads(trace')[i].v = B2N(nes'.buttons[0])
       /\ nes'.current_button = nes.current_button

\* C35: in every reachable state of the controller latch the read index is in
\* 0..7, and whenever strobe mode is on the index is 0, so that reads of
\* 0x4016 while strobed return buttons[0] and do not advance the index, for
\* any sequence of 0x4016 reads and writes and key events
C35_StrobePinsIndex == []LatchInRange /\ [][StrobedRead]_vars

\* after seven reads and a strobe, a key event pressed A and a read returned 1
\* with the index still 0
C35_StrobedReadSeen ==
  /\ Completed
  /\ JoyReads(trace) # << >>
  /\ nes.strobe_mode
  /\ nes.current_button = 0
  /\ nes.buttons[0]
  /\ JoyReads(trace)[1].v = 1
  /\ Len(SelectSeq(trace, IsJoyRead)) >= 8

\* the index has reached 7 with the strobe low
C35_LastButtonSeen == ~nes.strobe_mode /\ nes.current_button = 7 /\ nes.buttons[7]

(***************************************************************************)
(* The pattern tables.                                                     *)
(***************************************************************************)
PatternTables == 0..8191

Nametables == 8192..12287

\* C36: a write to a nametable address of PPU memory (0x2000..0x2FFF), made
\* through PPUDATA and so through ppu_write, leaves every byte of the pattern
\* tables (PPU addresses 0x0000..0x1FFF, where CHR ROM is installed) as it was
C36_NametableWriteKeepsPatterns ==
  [][(OnPpuData(141) /\ StepReturned /\ nes.ppuaddr \in Nametables)
       => \A a \in PatternTables : PpuMem(nes', a) = PpuMem(nes, a)]_vars

(***************************************************************************)
(* The PPUDATA post-increment at the top of the address space.             *)
(***************************************************************************)
\* C37: the PPUDATA post-increment never faults: for every 16-bit ppuaddr
\* that two PPUADDR writes can set (0xFFFF with increment 1 and
\* 0xFFE0..0xFFFF with increment 32 included), a PPUDATA read or write
\* completes and leaves ppuaddr = (ppuaddr + increment) mod 0x10000
C37_PostIncrementNeverFaults ==
  [][\A opc \in {173, 141} :
       OnPpuData(opc)
         => /\ status'.kind = "running"
            /\ nes'.ppuaddr = (nes.ppuaddr + CtrlInc(nes)) % 65536]_vars

(***************************************************************************)
(* Register reads of one instruction.                                      *)
(***************************************************************************)
\* the registers whose read changes the machine: PPUSTATUS and PPUDATA with
\* their mirrors, and the controller port
SideRegs == {a \in 8192..16383 : a % 8 \in {PPUSTATUS % 8, PPUDATA % 8}} \cup {JOYPAD}

IsSideRead(e) == e.k = "r" /\ e.a \in SideRegs

\* the reads of such registers made by the last instruction
SideReads(t) == SelectSeq(LastStep(t), IsSideRead)

\* RAM with its mirrors, or cartridge space
PcInMemory == nes.pc \in (0..8191) \cup (16416..65535)

NextOp == Mem(nes, nes.pc)

\* the addresses the instruction about to run works on through its
\* addressing mode: none for implied, immediate, zero page (which stays in
\* RAM), JMP and JSR; the two pointer bytes for JMP (indirect)
Addressed ==
  CASE NextOp = 76 -> {}
    [] NextOp = 108 -> {AbsBase, SamePageNext(AbsBase)}
    [] NextOp \in AbsOps -> {AbsBase}
    [] NextOp \in AbsXModeOps -> {U16(AbsBase + nes.x)}
    [] NextOp \in AbsYModeOps -> {U16(AbsBase + nes.y)}
    [] NextOp \in IndXModeOps -> {IndXTarget}
    [] NextOp \in IndYModeOps -> {IndYTarget}
    [] OTHER -> {}

\* the instruction about to run reads its operand: every memory instruction
\* but the stores STA, STX and STY
ReadsOperand == NextOp \in MemoryOps /\ NextOp \div 32 # 4

Registers == 8192..16415

\* what C38 says of a step() that returns
ReadsOnlyItsOperand ==
  (StepReturned /\ PcInMemory)
    => /\ prefetch_addrs(nes, Imm8) \cap SideRegs = {}
       /\ \A i \in 1..Len(SideReads(trace')) : SideReads(trace')[i].a \in Addressed
       /\ Len(SideReads(trace')) <= 1
       /\ (ReadsOperand /\ Addressed \subseteq SideRegs) => Len(SideReads(trace')) = 1
       /\ (NextOp = 173 /\ AbsBase = JOYPAD /\ ~nes.strobe_mode)
            => nes'.current_button = (nes.current_button + 1) % 8
       /\ (NextOp = 173 /\ AbsBase = PPUDATA)
            => nes'.ppuaddr = U16(nes.ppuaddr + CtrlInc(nes))
       /\ Addressed \cap Registers = {}
            => /\ nes'.w = nes.w
               /\ nes'.ppuaddr = nes.ppuaddr
               /\ nes'.ppudata = nes.ppudata
               /\ nes'.current_button = nes.current_button

C38_ControllerLoadSeen ==
  /\ Completed
  /\ LastOp(trace) = 173
  /\ Len(SideReads(trace)) = 1
  /\ SideReads(trace)[1].a = JOYPAD
  /\ ~nes.strobe_mode
  /\ nes.current_button = 1

\* an instruction on RAM has run with w set, ppuaddr = 0x2100 and the index
\* at 1, and left them so
C38_FrameKeptSeen ==
  /\ Completed
  /\ LastOp(trace) = 238
  /\ LastPc(trace) = 49163
  /\ nes.w
  /\ nes.ppuaddr = 8448
  /\ nes.current_button = 1

====
